---------------------------- MODULE Spec2Model ----------------------------
(***************************************************************************)
(* A model of the 6502 core of Scott-fo/nes (src/src/cpu).                 *)
(*                                                                         *)
(* The CPU aggregate is a record c with the fields of `struct CPU`; every  *)
(* routine of the source is an operator from such a record to the record   *)
(* it leaves (and, for a routine that returns a value, the value v).  A    *)
(* Rust panic (an index out of the memory array, an arithmetic overflow    *)
(* under overflow checks, an unwrap of None) sets the field `panicked`,    *)
(* after which every routine is the identity: the run is over.             *)
(***************************************************************************)
EXTENDS Integers, Sequences, FiniteSets, TLC

VARIABLES
    register_a,        \* CPU.register_a : u8
    register_x,        \* CPU.register_x : u8
    register_y,        \* CPU.register_y : u8
    status,            \* CPU.status : CpuFlags (its bits, a u8)
    stack_pointer,     \* CPU.stack_pointer : u8
    program_counter,   \* CPU.program_counter : u16
    memory,            \* CPU.memory, as the map of its non-zero bytes
    overflow_checks,   \* the build: TRUE when integer overflow panics (debug)
    panicked,          \* a panic has ended the program
    phase,             \* "host" | "fetch" | "callback": who acts next
    hist,              \* the last operations: what was called, with what, from where
    fetched,           \* opcodes fetched by the current run
    called,            \* callback invocations of the current run
    nops               \* operations performed so far (bounds the exploration)

vars == <<register_a, register_x, register_y, status, stack_pointer,
          program_counter, memory, overflow_checks, panicked, phase, hist,
          fetched, called, nops>>

-----------------------------------------------------------------------------
(* Machine integers.                                                       *)

U8 == 256
U16 == 65536

\* F applied to the value of e, with e evaluated once.
Then(e, F(_)) == CHOOSE y \in {F(x) : x \in {e}} : TRUE

Bit(v, i) == (v \div (2 ^ i)) % 2

RECURSIVE BitAnd(_, _)
BitAnd(a, b) ==
    IF a = 0 \/ b = 0 THEN 0
    ELSE (a % 2) * (b % 2) + 2 * BitAnd(a \div 2, b \div 2)

RECURSIVE BitOr(_, _)
BitOr(a, b) ==
    IF a = 0 THEN b
    ELSE IF b = 0 THEN a
    ELSE (IF a % 2 = 1 \/ b % 2 = 1 THEN 1 ELSE 0) + 2 * BitOr(a \div 2, b \div 2)

RECURSIVE BitXor(_, _)
BitXor(a, b) ==
    IF a = 0 THEN b
    ELSE IF b = 0 THEN a
    ELSE ((a + b) % 2) + 2 * BitXor(a \div 2, b \div 2)

\* u8::wrapping_add, u8::wrapping_sub, u16::wrapping_add
\* A variant: the sum is not reduced to 8 bits.
wrapping_add_u8_Widening(a, b) == a + b
wrapping_add_u8(a, b) == (a + b) % U8
wrapping_sub_u8(a, b) == (a - b + U8) % U8
wrapping_add_u16(a, b) == (a + b) % U16

\* `x as i8` of a u8, and `x as u16` of that i8 (sign extension)
as_i8(b) == IF b >= 128 THEN b - 256 ELSE b
i8_as_u16(d) == IF d < 0 THEN d + U16 ELSE d

\* u16::from_le_bytes([lo, hi]) and u16::to_le_bytes
from_le_bytes(lo, hi) == lo + 256 * hi
to_le_bytes(data) == [lo |-> data % 256, hi |-> data \div 256]

-----------------------------------------------------------------------------
(* mod.rs: the flags, the constants, the CPU aggregate.                    *)

CARRY == \h01
ZERO == \h02
INTERRUPT_DISABLE == \h04
DECIMAL_MODE == \h08
BREAK == \h10
BREAK2 == \h20
OVERFLOW == \h40
NEGATIVE == \h80

STACK_RESET == \hFF
STACK == \h0100

\* memory: [u8; 0xFFFF] -- the array's length, hence 0xFFFF is no index of it
MEMORY_LEN == \hFFFF

\* bitflags: contains / insert / remove / set / from_bits_truncate
contains(bits, flag) == BitAnd(bits, flag) = flag
insert(bits, flag) == BitOr(bits, flag)
\* A variant: the flag stays as it is.
remove_Kept(bits, flag) == bits
remove(bits, flag) == bits - BitAnd(bits, flag)
set(bits, flag, on) == IF on THEN insert(bits, flag) ELSE remove(bits, flag)
from_bits_truncate(bits) == bits % U8

\* A variant: the failure is ignored and the run goes on.
Panic_Ignored(c) == c
Panic(c) == [c EXCEPT !.panicked = TRUE]

\* The memory array as a map of its non-zero bytes: a byte absent from the map is 0.
Peek(mem, addr) == IF addr \in DOMAIN mem THEN mem[addr] ELSE 0

Poke(mem, addr, data) ==
    IF data = 0
    THEN [a \in DOMAIN mem \ {addr} |-> mem[a]]
    ELSE [a \in DOMAIN mem \cup {addr} |-> IF a = addr THEN data ELSE mem[a]]

ZeroMemory == [a \in {} |-> 0]

\* CPU::new()
new(oc) ==
    [register_a |-> 0, register_x |-> 0, register_y |-> 0,
     stack_pointer |-> STACK_RESET, program_counter |-> 0,
     status |-> from_bits_truncate(36),
     memory |-> ZeroMemory,
     overflow_checks |-> oc, panicked |-> FALSE]

\* `a + b` on u16: panics under overflow checks, wraps without them
add_u16(c, a, b) ==
    IF c.panicked THEN [c |-> c, v |-> 0]
    ELSE IF a + b < U16 THEN [c |-> c, v |-> a + b]
    ELSE IF c.overflow_checks THEN [c |-> Panic(c), v |-> 0]
    ELSE [c |-> c, v |-> (a + b) % U16]

\* `a - b` on u16: panics under overflow checks, wraps without them
sub_u16(c, a, b) ==
    IF c.panicked THEN [c |-> c, v |-> 0]
    ELSE IF a >= b THEN [c |-> c, v |-> a - b]
    ELSE IF c.overflow_checks THEN [c |-> Panic(c), v |-> 0]
    ELSE [c |-> c, v |-> (a - b + U16) % U16]

-----------------------------------------------------------------------------
(* memory.rs                                                               *)

IndexInBounds(c, addr) == addr < MEMORY_LEN

mem_read(c, addr) ==
    IF c.panicked THEN [c |-> c, v |-> 0]
    ELSE IF IndexInBounds(c, addr) THEN [c |-> c, v |-> Peek(c.memory, addr)]
    ELSE [c |-> Panic(c), v |-> 0]

mem_write(c, addr, data) ==
    IF c.panicked THEN c
    ELSE IF IndexInBounds(c, addr) THEN [c EXCEPT !.memory = Poke(@, addr, data)]
    ELSE Panic(c)

mem_read_u16(c, pos) ==
    Then(mem_read(c, pos), LAMBDA lo :
    Then(add_u16(lo.c, pos, 1), LAMBDA nx :
    Then(mem_read(nx.c, nx.v), LAMBDA hi :
        [c |-> hi.c, v |-> from_le_bytes(lo.v, hi.v)])))

mem_write_u16(c, pos, data) ==
    Then(to_le_bytes(data), LAMBDA b :
    Then(mem_write(c, pos, b.lo), LAMBDA c1 :
    Then(add_u16(c1, pos, 1), LAMBDA nx :
        mem_write(nx.c, nx.v, b.hi))))

-----------------------------------------------------------------------------
(* stack.rs                                                                *)

\* A variant: the byte is read before the pointer moves.
stack_pop_ReadFirst(c) ==
    Then(mem_read(c, STACK + c.stack_pointer), LAMBDA r :
        IF r.c.panicked THEN r
        ELSE [c |-> [r.c EXCEPT !.stack_pointer = wrapping_add_u8(@, 1)], v |-> r.v])

stack_pop(c) ==
    IF c.panicked THEN [c |-> c, v |-> 0]
    ELSE Then([c EXCEPT !.stack_pointer = wrapping_add_u8(@, 1)], LAMBDA c1 :
             mem_read(c1, STACK + c1.stack_pointer))

stack_pop_u16(c) ==
    Then(stack_pop(c), LAMBDA lo :
    Then(stack_pop(lo.c), LAMBDA hi :
        [c |-> hi.c, v |-> from_le_bytes(lo.v, hi.v)]))

stack_push(c, data) ==
    Then(mem_write(c, STACK + c.stack_pointer, data), LAMBDA c1 :
        IF c1.panicked THEN c1
        ELSE [c1 EXCEPT !.stack_pointer = wrapping_sub_u8(@, 1)])

stack_push_u16(c, data) ==
    Then(to_le_bytes(data), LAMBDA b :
    Then(stack_push(c, b.hi), LAMBDA c1 :
        stack_push(c1, b.lo)))

-----------------------------------------------------------------------------
(* core_functions.rs                                                       *)

update_negative_flags(c, param) ==
    [c EXCEPT !.status = IF param \div 128 = 1 THEN insert(@, NEGATIVE)
                         ELSE remove(@, NEGATIVE)]

update_zero_and_negative_flags(c, param) ==
    update_negative_flags(
        [c EXCEPT !.status = IF param = 0 THEN insert(@, ZERO) ELSE remove(@, ZERO)],
        param)

set_register_a(c, value) ==
    update_zero_and_negative_flags([c EXCEPT !.register_a = value], value)

set_register_x(c, value) ==
    update_zero_and_negative_flags([c EXCEPT !.register_x = value], value)

set_register_y(c, value) ==
    update_zero_and_negative_flags([c EXCEPT !.register_y = value], value)

\* A variant: the overflow test looks at the operand's sign only.
add_to_register_a_OperandSignOnly(c, value) ==
    Then(c.register_a + value + (IF contains(c.status, CARRY) THEN 1 ELSE 0),
         LAMBDA sum :
    Then(IF sum > 255 THEN insert(c.status, CARRY) ELSE remove(c.status, CARRY),
         LAMBDA s1 :
    Then(sum % U8, LAMBDA result :
    Then(BitXor(value, result), LAMBDA value_vs_result :
    Then(IF BitAnd(value_vs_result, NEGATIVE) # 0
         THEN insert(s1, OVERFLOW) ELSE remove(s1, OVERFLOW), LAMBDA s2 :
        set_register_a([c EXCEPT !.status = s2], result))))))

add_to_register_a(c, value) ==
    Then(c.register_a + value + (IF contains(c.status, CARRY) THEN 1 ELSE 0),
         LAMBDA sum :
    Then(IF sum > 255 THEN insert(c.status, CARRY) ELSE remove(c.status, CARRY),
         LAMBDA s1 :
    Then(sum % U8, LAMBDA result :
    Then(BitXor(value, result), LAMBDA value_vs_result :
    Then(BitXor(c.register_a, result), LAMBDA a_vs_result :
    Then(IF BitAnd(BitAnd(value_vs_result, a_vs_result), NEGATIVE) # 0
         THEN insert(s1, OVERFLOW) ELSE remove(s1, OVERFLOW), LAMBDA s2 :
        set_register_a([c EXCEPT !.status = s2], result)))))))

\* The operand address and the CPU as the resolver's reads leave it.
get_operand_address(c, mode) ==
    CASE mode = "Immediate" -> [c |-> c, v |-> c.program_counter]
      [] mode = "ZeroPage" -> mem_read(c, c.program_counter)
      [] mode = "ZeroPageX" ->
            Then(mem_read(c, c.program_counter), LAMBDA pos :
                [c |-> pos.c, v |-> wrapping_add_u8(pos.v, c.register_x)])
      [] mode = "ZeroPageY" ->
            Then(mem_read(c, c.program_counter), LAMBDA pos :
                [c |-> pos.c, v |-> wrapping_add_u8(pos.v, c.register_y)])
      [] mode = "Absolute" -> mem_read_u16(c, c.program_counter)
      [] mode = "AbsoluteX" ->
            Then(mem_read_u16(c, c.program_counter), LAMBDA base :
                [c |-> base.c, v |-> wrapping_add_u16(base.v, c.register_x)])
      [] mode = "AbsoluteY" ->
            Then(mem_read_u16(c, c.program_counter), LAMBDA base :
                [c |-> base.c, v |-> wrapping_add_u16(base.v, c.register_y)])
      [] mode = "IndirectX" ->
            Then(mem_read(c, c.program_counter), LAMBDA base :
            Then(wrapping_add_u8(base.v, c.register_x), LAMBDA ptr :
            Then(mem_read(base.c, ptr), LAMBDA lo :
            Then(mem_read(lo.c, wrapping_add_u8(ptr, 1)), LAMBDA hi :
                [c |-> hi.c, v |-> from_le_bytes(lo.v, hi.v)]))))
      [] mode = "IndirectY" ->
            Then(mem_read(c, c.program_counter), LAMBDA base :
            Then(mem_read(base.c, base.v), LAMBDA lo :
            Then(mem_read(lo.c, wrapping_add_u8(base.v, 1)), LAMBDA hi :
            Then(from_le_bytes(lo.v, hi.v), LAMBDA deref_base :
                [c |-> hi.c, v |-> wrapping_add_u16(deref_base, c.register_y)]))))
      [] OTHER -> [c |-> Panic(c), v |-> 0]

\* let addr = self.get_operand_address(mode); let mem = self.mem_read(addr);
\* the common opening of the routines that take a mode: addr, the byte, the CPU.
Operand(c, mode) ==
    Then(get_operand_address(c, mode), LAMBDA addr :
    Then(mem_read(addr.c, addr.v), LAMBDA mem :
        [c |-> mem.c, addr |-> addr.v, v |-> mem.v]))

-----------------------------------------------------------------------------
(* opcode_methods.rs                                                       *)

set_carry_flag(c) == [c EXCEPT !.status = insert(@, CARRY)]
set_decimal_flag(c) == [c EXCEPT !.status = insert(@, DECIMAL_MODE)]
set_interrupt_disable(c) == [c EXCEPT !.status = insert(@, INTERRUPT_DISABLE)]
clear_carry_flag(c) == [c EXCEPT !.status = remove(@, CARRY)]
clear_decimal_flag(c) == [c EXCEPT !.status = remove(@, DECIMAL_MODE)]
clear_interrupt_flag(c) == [c EXCEPT !.status = remove(@, INTERRUPT_DISABLE)]
clear_overflow_flag(c) == [c EXCEPT !.status = remove(@, OVERFLOW)]

\* A routine's body runs on the operand o unless resolving or reading it panicked.
WithOperand(c, mode, Body(_)) ==
    Then(Operand(c, mode), LAMBDA o : IF o.c.panicked THEN o.c ELSE Body(o))

\* if bit { self.set_carry_flag() } else { self.clear_carry_flag() }
CarryFrom(c, bit) == IF bit THEN set_carry_flag(c) ELSE clear_carry_flag(c)

\* A variant: the carry flag is not added in.
adc_WithoutCarryIn(c, mode) ==
    WithOperand(c, mode, LAMBDA o : add_to_register_a(clear_carry_flag(o.c), o.v))

adc(c, mode) ==
    WithOperand(c, mode, LAMBDA o : add_to_register_a(o.c, o.v))

and(c, mode) ==
    WithOperand(c, mode, LAMBDA o : set_register_a(o.c, BitAnd(o.v, o.c.register_a)))

asl_accumulator(c) ==
    Then(CarryFrom(c, c.register_a \div 128 = 1), LAMBDA c1 :
        set_register_a(c1, (c.register_a * 2) % U8))

asl(c, mode) ==
    WithOperand(c, mode, LAMBDA o :
        Then(CarryFrom(o.c, o.v \div 128 = 1), LAMBDA c1 :
        Then((o.v * 2) % U8, LAMBDA mem :
        Then(mem_write(c1, o.addr, mem), LAMBDA c2 :
            update_zero_and_negative_flags(c2, mem)))))

branch(c, carry_flag) ==
    IF carry_flag
    THEN Then(mem_read(c, c.program_counter), LAMBDA relative_disp :
             IF relative_disp.c.panicked THEN relative_disp.c
             ELSE [relative_disp.c EXCEPT !.program_counter =
                      wrapping_add_u16(wrapping_add_u16(c.program_counter, 1),
                                       i8_as_u16(as_i8(relative_disp.v)))])
    ELSE c

bit(c, mode) ==
    WithOperand(c, mode, LAMBDA o :
        Then(IF BitAnd(o.c.register_a, o.v) = 0 THEN insert(o.c.status, ZERO)
             ELSE remove(o.c.status, ZERO), LAMBDA s1 :
        Then(set(s1, OVERFLOW, BitAnd(o.v, OVERFLOW) > 0), LAMBDA s2 :
        Then(set(s2, NEGATIVE, BitAnd(o.v, NEGATIVE) > 0), LAMBDA s3 :
            [o.c EXCEPT !.status = s3]))))

\* A variant: the carry is set only when the register is greater.
cmp_StrictlyGreater(c, mode, register) ==
    WithOperand(c, mode, LAMBDA o :
        Then(CarryFrom(o.c, register > o.v), LAMBDA c1 :
            update_zero_and_negative_flags(c1, wrapping_sub_u8(register, o.v))))

cmp(c, mode, register) ==
    WithOperand(c, mode, LAMBDA o :
        Then(CarryFrom(o.c, register >= o.v), LAMBDA c1 :
            update_zero_and_negative_flags(c1, wrapping_sub_u8(register, o.v))))

decrement_memory(c, mode) ==
    WithOperand(c, mode, LAMBDA o :
        Then(wrapping_sub_u8(o.v, 1), LAMBDA mem :
        Then(mem_write(o.c, o.addr, mem), LAMBDA c1 :
            update_zero_and_negative_flags(c1, mem))))

decrement_register_x(c) ==
    Then(wrapping_sub_u8(c.register_x, 1), LAMBDA v :
        update_zero_and_negative_flags([c EXCEPT !.register_x = v], v))

decrement_register_y(c) ==
    Then(wrapping_sub_u8(c.register_y, 1), LAMBDA v :
        update_zero_and_negative_flags([c EXCEPT !.register_y = v], v))

exclusive_or(c, mode) ==
    WithOperand(c, mode, LAMBDA o : set_register_a(o.c, BitXor(o.v, o.c.register_a)))

increment_memory(c, mode) ==
    WithOperand(c, mode, LAMBDA o :
        Then(wrapping_add_u8(o.v, 1), LAMBDA inc_mem :
        Then(update_zero_and_negative_flags(o.c, inc_mem), LAMBDA c1 :
            mem_write(c1, o.addr, inc_mem))))

\* A variant: a checked addition, which fails at 0xFF.
increment_register_x_Checked(c) ==
    IF c.register_x = \hFF THEN Panic(c)
    ELSE Then([c EXCEPT !.register_x = c.register_x + 1], LAMBDA c1 :
             update_zero_and_negative_flags(c1, c1.register_x))

increment_register_x(c) ==
    Then(wrapping_add_u8(c.register_x, 1), LAMBDA v :
        update_zero_and_negative_flags([c EXCEPT !.register_x = v], v))

increment_register_y(c) ==
    Then(wrapping_add_u8(c.register_y, 1), LAMBDA v :
        update_zero_and_negative_flags([c EXCEPT !.register_y = v], v))

jump_absolute(c) ==
    Then(mem_read_u16(c, c.program_counter), LAMBDA mem_address :
        IF mem_address.c.panicked THEN mem_address.c
        ELSE [mem_address.c EXCEPT !.program_counter = mem_address.v])

jump_indirect(c) ==
    Then(mem_read_u16(c, c.program_counter), LAMBDA addr :
    Then(IF BitAnd(addr.v, 255) = 255
         THEN Then(mem_read(addr.c, addr.v), LAMBDA lo :
              Then(mem_read(lo.c, BitAnd(addr.v, \hFF00)), LAMBDA hi :
                  [c |-> hi.c, v |-> from_le_bytes(lo.v, hi.v)]))
         ELSE mem_read_u16(addr.c, addr.v), LAMBDA addr_at_addr :
        IF addr_at_addr.c.panicked THEN addr_at_addr.c
        ELSE [addr_at_addr.c EXCEPT !.program_counter = addr_at_addr.v]))

jump_sub_routine(c) ==
    Then(add_u16(c, c.program_counter, 2), LAMBDA sum :
    Then(sub_u16(sum.c, sum.v, 1), LAMBDA ret :
    Then(stack_push_u16(ret.c, ret.v), LAMBDA c1 :
    Then(mem_read_u16(c1, c1.program_counter), LAMBDA tgt :
        IF tgt.c.panicked THEN tgt.c
        ELSE [tgt.c EXCEPT !.program_counter = tgt.v]))))

load_a_register(c, mode) ==
    WithOperand(c, mode, LAMBDA o : set_register_a(o.c, o.v))

load_x_register(c, mode) ==
    WithOperand(c, mode, LAMBDA o : set_register_x(o.c, o.v))

load_y_register(c, mode) ==
    WithOperand(c, mode, LAMBDA o : set_register_y(o.c, o.v))

logical_shift_right_accumulator(c) ==
    Then(CarryFrom(c, BitAnd(c.register_a, CARRY) = CARRY), LAMBDA c1 :
        set_register_a(c1, c.register_a \div 2))

logical_shift_right(c, mode) ==
    WithOperand(c, mode, LAMBDA o :
        Then(CarryFrom(o.c, BitAnd(o.v, CARRY) = CARRY), LAMBDA c1 :
        Then(o.v \div 2, LAMBDA mem :
        Then(update_zero_and_negative_flags(c1, mem), LAMBDA c2 :
            mem_write(c2, o.addr, mem)))))

logical_inclusive_or(c, mode) ==
    WithOperand(c, mode, LAMBDA o : set_register_a(o.c, BitOr(o.c.register_a, o.v)))

push_processor_status(c) ==
    Then(insert(insert(c.status, BREAK), BREAK2), LAMBDA processor_flags :
        stack_push(c, processor_flags))

pull_accumulator(c) ==
    Then(stack_pop(c), LAMBDA data :
        IF data.c.panicked THEN data.c ELSE set_register_a(data.c, data.v))

\* A variant: the popped byte becomes the status as it is.
pull_processor_status_AsPopped(c) ==
    Then(stack_pop(c), LAMBDA bits :
        IF bits.c.panicked THEN bits.c
        ELSE [bits.c EXCEPT !.status = bits.v])

pull_processor_status(c) ==
    Then(stack_pop(c), LAMBDA bits :
        IF bits.c.panicked THEN bits.c
        ELSE [bits.c EXCEPT !.status = insert(remove(bits.v, BREAK), BREAK2)])

\* The shared body of the two ROL routines: the carry out and the rotated byte.
RotateLeft(c, data) ==
    Then(contains(c.status, CARRY), LAMBDA current_carry :
    Then((data * 2) % U8, LAMBDA shifted :
        [c |-> CarryFrom(c, data \div 128 = 1),
         v |-> IF current_carry THEN BitOr(shifted, CARRY)
               ELSE BitAnd(shifted, 254)]))

rotate_left_accumulator(c) ==
    Then(RotateLeft(c, c.register_a), LAMBDA r : set_register_a(r.c, r.v))

rotate_left(c, mode) ==
    WithOperand(c, mode, LAMBDA o :
        Then(RotateLeft(o.c, o.v), LAMBDA r :
        Then(update_negative_flags(r.c, r.v), LAMBDA c1 :
            mem_write(c1, o.addr, r.v))))

\* A variant: bit 7 is cleared whatever the carry, as a shift does.
RotateRight_AsShift(c, data) ==
    Then(data \div 2, LAMBDA shifted :
        [c |-> CarryFrom(c, BitAnd(data, CARRY) = 1),
         v |-> BitAnd(shifted, 127)])

\* The shared body of the two ROR routines.
RotateRight(c, data) ==
    Then(contains(c.status, CARRY), LAMBDA current_carry :
    Then(data \div 2, LAMBDA shifted :
        [c |-> CarryFrom(c, BitAnd(data, CARRY) = 1),
         v |-> IF current_carry THEN BitOr(shifted, NEGATIVE)
               ELSE BitAnd(shifted, 127)]))

rotate_right_accumulator(c) ==
    Then(RotateRight(c, c.register_a), LAMBDA r : set_register_a(r.c, r.v))

rotate_right(c, mode) ==
    WithOperand(c, mode, LAMBDA o :
        Then(RotateRight(o.c, o.v), LAMBDA r :
        Then(update_negative_flags(r.c, r.v), LAMBDA c1 :
            mem_write(c1, o.addr, r.v))))

\* A variant: the popped word is a return address, as for RTS.
return_from_interrupt_AsReturn(c) ==
    Then(stack_pop(c), LAMBDA bits :
    Then([bits.c EXCEPT !.status = insert(remove(bits.v, BREAK), BREAK2)],
         LAMBDA c1 :
    Then(stack_pop_u16(c1), LAMBDA pc :
        IF pc.c.panicked THEN pc.c
        ELSE [pc.c EXCEPT !.program_counter = wrapping_add_u16(pc.v, 1)])))

return_from_interrupt(c) ==
    Then(stack_pop(c), LAMBDA bits :
    Then([bits.c EXCEPT !.status = insert(remove(bits.v, BREAK), BREAK2)],
         LAMBDA c1 :
    Then(stack_pop_u16(c1), LAMBDA pc :
        IF pc.c.panicked THEN pc.c
        ELSE [pc.c EXCEPT !.program_counter = pc.v])))

\* A variant: the two's complement, without the subtraction of 1.
NegSubOne_NegOnly(mem) == (U8 - mem) % U8

\* ((mem as i8).wrapping_neg().wrapping_sub(1)) as u8
NegSubOne(mem) ==
    LET s == as_i8(mem)
        n == IF s = -128 THEN -128 ELSE 0 - s
        d == IF n - 1 < -128 THEN n - 1 + 256 ELSE n - 1
    IN  IF d < 0 THEN d + 256 ELSE d

subtract_with_carry(c, mode) ==
    WithOperand(c, mode, LAMBDA o : add_to_register_a(o.c, NegSubOne(o.v)))

store_accumulator(c, mode) ==
    Then(get_operand_address(c, mode), LAMBDA addr :
        mem_write(addr.c, addr.v, c.register_a))

store_x_register(c, mode) ==
    Then(get_operand_address(c, mode), LAMBDA addr :
        mem_write(addr.c, addr.v, c.register_x))

store_y_register(c, mode) ==
    Then(get_operand_address(c, mode), LAMBDA addr :
        mem_write(addr.c, addr.v, c.register_y))

transfer_accumulator_x(c) ==
    update_zero_and_negative_flags([c EXCEPT !.register_x = c.register_a], c.register_a)

transfer_accumulator_y(c) ==
    update_zero_and_negative_flags([c EXCEPT !.register_y = c.register_a], c.register_a)

transfer_stack_pointer_to_x(c) ==
    update_zero_and_negative_flags([c EXCEPT !.register_x = c.stack_pointer],
                                   c.stack_pointer)

transfer_x_accumulator(c) ==
    update_zero_and_negative_flags([c EXCEPT !.register_a = c.register_x], c.register_x)

\* A variant: the transfer updates Z and N, as the other five do.
transfer_x_to_stack_pointer_WithFlags(c) ==
    update_zero_and_negative_flags([c EXCEPT !.stack_pointer = c.register_x], c.register_x)

transfer_x_to_stack_pointer(c) == [c EXCEPT !.stack_pointer = c.register_x]

transfer_y_accumulator(c) ==
    update_zero_and_negative_flags([c EXCEPT !.register_a = c.register_y], c.register_y)

-----------------------------------------------------------------------------
(* The opcode table (crate::opcodes, consumed by the dispatcher): the      *)
(* addressing mode and the encoded length of each official opcode.         *)

ImmediateCodes == {\h69, \h29, \hC9, \hE0, \hC0, \h49, \hA9, \hA2, \hA0, \h09, \hE9}
ZeroPageCodes  == {\h65, \h25, \h06, \h24, \hC5, \hE4, \hC4, \hC6, \h45, \hE6, \hA5,
                   \hA6, \hA4, \h46, \h05, \h26, \h66, \hE5, \h85, \h86, \h84}
ZeroPageXCodes == {\h75, \h35, \h16, \hD5, \hD6, \h55, \hF6, \hB5, \hB4, \h56, \h15,
                   \h36, \h76, \hF5, \h95, \h94}
ZeroPageYCodes == {\hB6, \h96}
AbsoluteCodes  == {\h6D, \h2D, \h0E, \h2C, \hCD, \hEC, \hCC, \hCE, \h4D, \hEE, \hAD,
                   \hAE, \hAC, \h4E, \h0D, \h2E, \h6E, \hED, \h8D, \h8E, \h8C}
AbsoluteXCodes == {\h7D, \h3D, \h1E, \hDD, \hDE, \h5D, \hFE, \hBD, \hBC, \h5E, \h1D,
                   \h3E, \h7E, \hFD, \h9D}
AbsoluteYCodes == {\h79, \h39, \hD9, \h59, \hB9, \hBE, \h19, \hF9, \h99}
IndirectXCodes == {\h61, \h21, \hC1, \h41, \hA1, \h01, \hE1, \h81}
IndirectYCodes == {\h71, \h31, \hD1, \h51, \hB1, \h11, \hF1, \h91}

\* NonAddressing entries: implied and accumulator (1 byte), relative (2), JMP and JSR (3)
ImpliedCodes   == {\h0A, \h00, \h18, \hD8, \h58, \hB8, \hCA, \h88, \hE8, \hC8, \h4A,
                   \hEA, \h48, \h08, \h68, \h28, \h2A, \h6A, \h40, \h60, \h38, \hF8,
                   \h78, \hAA, \hA8, \hBA, \h8A, \h9A, \h98}
RelativeCodes  == {\h90, \hB0, \hF0, \h30, \hD0, \h10, \h50, \h70}
JumpCodes      == {\h4C, \h6C, \h20}

OfficialCodes ==
    ImmediateCodes \cup ZeroPageCodes \cup ZeroPageXCodes \cup ZeroPageYCodes
    \cup AbsoluteCodes \cup AbsoluteXCodes \cup AbsoluteYCodes
    \cup IndirectXCodes \cup IndirectYCodes
    \cup ImpliedCodes \cup RelativeCodes \cup JumpCodes

OpMode(code) ==
    CASE code \in ImmediateCodes -> "Immediate"
      [] code \in ZeroPageCodes  -> "ZeroPage"
      [] code \in ZeroPageXCodes -> "ZeroPageX"
      [] code \in ZeroPageYCodes -> "ZeroPageY"
      [] code \in AbsoluteCodes  -> "Absolute"
      [] code \in AbsoluteXCodes -> "AbsoluteX"
      [] code \in AbsoluteYCodes -> "AbsoluteY"
      [] code \in IndirectXCodes -> "IndirectX"
      [] code \in IndirectYCodes -> "IndirectY"
      [] OTHER -> "NonAddressing"

OpLen(code) ==
    CASE code \in ImpliedCodes -> 1
      [] code \in ImmediateCodes \cup ZeroPageCodes \cup ZeroPageXCodes
                  \cup ZeroPageYCodes \cup IndirectXCodes \cup IndirectYCodes
                  \cup RelativeCodes -> 2
      [] OTHER -> 3

\* opcodes.get(&code): the entry, or None
OPCODES_MAP(code) ==
    IF code \in OfficialCodes
    THEN [some |-> TRUE, mode |-> OpMode(code), len |-> OpLen(code)]
    ELSE [some |-> FALSE, mode |-> "NonAddressing", len |-> 1]

-----------------------------------------------------------------------------
(* mod.rs: reset, load, the dispatch loop.                                 *)

\* A variant: the status register is left as it was.
reset_KeepsStatus(c) ==
    IF c.panicked THEN c
    ELSE Then([c EXCEPT !.register_a = 0, !.register_x = 0, !.register_y = 0,
                        !.stack_pointer = STACK_RESET], LAMBDA c1 :
         Then(mem_read_u16(c1, \hFFFC), LAMBDA pc :
             IF pc.c.panicked THEN pc.c
             ELSE [pc.c EXCEPT !.program_counter = pc.v]))

reset(c) ==
    IF c.panicked THEN c
    ELSE Then([c EXCEPT !.register_a = 0, !.register_x = 0, !.register_y = 0,
                        !.stack_pointer = STACK_RESET,
                        !.status = from_bits_truncate(36)], LAMBDA c1 :
         Then(mem_read_u16(c1, \hFFFC), LAMBDA pc :
             IF pc.c.panicked THEN pc.c
             ELSE [pc.c EXCEPT !.program_counter = pc.v]))

\* A variant: the address a cartridge ROM would be mapped at.
LOAD_BASE_Rom == \h8000

LOAD_BASE == \h0600

\* A variant: the program is copied into a zeroed array.
CopyProgram_IntoZeroed(mem, program) ==
    Then({i \in 1 .. Len(program) : program[i] # 0}, LAMBDA copied :
        [a \in {LOAD_BASE + i - 1 : i \in copied} |-> program[a - LOAD_BASE + 1]])

\* self.memory[0x0600 .. (0x0600 + program.len())].copy_from_slice(&program[..])
\* The bytes of the range become the program's; the others stay.
CopyProgram(mem, program) ==
    Then(Len(program), LAMBDA n :
    Then({a \in DOMAIN mem : a < LOAD_BASE \/ a >= LOAD_BASE + n}, LAMBDA kept :
    Then({i \in 1 .. n : program[i] # 0}, LAMBDA copied :
        [a \in kept \cup {LOAD_BASE + i - 1 : i \in copied} |->
            IF a \in kept THEN mem[a] ELSE program[a - LOAD_BASE + 1]])))

load(c, program) ==
    IF c.panicked THEN c
    ELSE IF LOAD_BASE + Len(program) > MEMORY_LEN THEN Panic(c)
    ELSE Then([c EXCEPT !.memory = CopyProgram(@, program)], LAMBDA c1 :
             mem_write_u16(c1, \hFFFC, LOAD_BASE))

\* The match of run_with_callback, for every code but BRK.
Dispatch(c, code, mode) ==
    CASE code \in {\h69, \h65, \h75, \h6D, \h7D, \h79, \h61, \h71} -> adc(c, mode)
      [] code \in {\h29, \h25, \h35, \h2D, \h3D, \h39, \h21, \h31} -> and(c, mode)
      [] code = \h0A -> asl_accumulator(c)
      [] code \in {\h06, \h16, \h0E, \h1E} -> asl(c, mode)
      [] code = \h90 -> branch(c, ~contains(c.status, CARRY))
      [] code = \hB0 -> branch(c, contains(c.status, CARRY))
      [] code = \hF0 -> branch(c, contains(c.status, ZERO))
      [] code \in {\h24, \h2C} -> bit(c, mode)
      [] code = \h30 -> branch(c, contains(c.status, NEGATIVE))
      [] code = \hD0 -> branch(c, ~contains(c.status, ZERO))
      [] code = \h10 -> branch(c, ~contains(c.status, NEGATIVE))
      [] code = \h50 -> branch(c, ~contains(c.status, OVERFLOW))
      [] code = \h70 -> branch(c, contains(c.status, OVERFLOW))
      [] code = \h18 -> clear_carry_flag(c)
      [] code = \hD8 -> clear_decimal_flag(c)
      [] code = \h58 -> clear_interrupt_flag(c)
      [] code = \hB8 -> clear_overflow_flag(c)
      [] code \in {\hC9, \hC5, \hD5, \hCD, \hDD, \hD9, \hC1, \hD1} ->
            cmp(c, mode, c.register_a)
      [] code \in {\hE0, \hE4, \hEC} -> cmp(c, mode, c.register_x)
      [] code \in {\hC0, \hC4, \hCC} -> cmp(c, mode, c.register_y)
      [] code \in {\hC6, \hD6, \hCE, \hDE} -> decrement_memory(c, mode)
      [] code = \hCA -> decrement_register_x(c)
      [] code = \h88 -> decrement_register_y(c)
      [] code \in {\h49, \h45, \h55, \h4D, \h5D, \h59, \h41, \h51} ->
            exclusive_or(c, mode)
      [] code \in {\hE6, \hF6, \hEE, \hFE} -> increment_memory(c, mode)
      [] code = \hE8 -> increment_register_x(c)
      [] code = \hC8 -> increment_register_y(c)
      [] code = \h4C -> jump_absolute(c)
      [] code = \h6C -> jump_indirect(c)
      [] code = \h20 -> jump_sub_routine(c)
      [] code \in {\hA9, \hA5, \hB5, \hAD, \hBD, \hB9, \hA1, \hB1} ->
            load_a_register(c, mode)
      [] code \in {\hA2, \hA6, \hB6, \hAE, \hBE} -> load_x_register(c, mode)
      [] code \in {\hA0, \hA4, \hB4, \hAC, \hBC} -> load_y_register(c, mode)
      [] code = \h4A -> logical_shift_right_accumulator(c)
      [] code \in {\h46, \h56, \h4E, \h5E} -> logical_shift_right(c, mode)
      [] code = \hEA -> c
      [] code \in {\h09, \h05, \h15, \h0D, \h1D, \h19, \h01, \h11} ->
            logical_inclusive_or(c, mode)
      [] code = \h48 -> stack_push(c, c.register_a)
      [] code = \h08 -> push_processor_status(c)
      [] code = \h68 -> pull_accumulator(c)
      [] code = \h28 -> pull_processor_status(c)
      [] code = \h2A -> rotate_left_accumulator(c)
      [] code \in {\h26, \h36, \h2E, \h3E} -> rotate_left(c, mode)
      [] code = \h6A -> rotate_right_accumulator(c)
      [] code \in {\h66, \h76, \h6E, \h7E} -> rotate_right(c, mode)
      [] code = \h40 -> return_from_interrupt(c)
      [] code = \h60 ->
            Then(stack_pop_u16(c), LAMBDA w :
            Then(add_u16(w.c, w.v, 1), LAMBDA pc :
                IF pc.c.panicked THEN pc.c
                ELSE [pc.c EXCEPT !.program_counter = pc.v]))
      [] code \in {\hE9, \hE5, \hF5, \hED, \hFD, \hF9, \hE1, \hF1} ->
            subtract_with_carry(c, mode)
      [] code = \h38 -> set_carry_flag(c)
      [] code = \hF8 -> set_decimal_flag(c)
      [] code = \h78 -> set_interrupt_disable(c)
      [] code \in {\h85, \h95, \h8D, \h9D, \h99, \h81, \h91} ->
            store_accumulator(c, mode)
      [] code \in {\h86, \h96, \h8E} -> store_x_register(c, mode)
      [] code \in {\h84, \h94, \h8C} -> store_y_register(c, mode)
      [] code = \hAA -> transfer_accumulator_x(c)
      [] code = \hA8 -> transfer_accumulator_y(c)
      [] code = \hBA -> transfer_stack_pointer_to_x(c)
      [] code = \h8A -> transfer_x_accumulator(c)
      [] code = \h9A -> transfer_x_to_stack_pointer(c)
      [] code = \h98 -> transfer_y_accumulator(c)
      [] OTHER -> Panic(c)

\* A variant: NOP returns too.
IsReturn_OrNop(code) == code \in {\h00, \hEA}

\* code == 0x00 => return
IsReturn(code) == code = \h00

\* A variant: the whole length is added behind the opcode.
AdvancePC_WholeLength(c, program_counter_state, len) ==
    IF ~c.panicked /\ program_counter_state = c.program_counter
    THEN Then(add_u16(c, c.program_counter, len), LAMBDA pc :
             IF pc.c.panicked THEN pc.c
             ELSE [pc.c EXCEPT !.program_counter = pc.v])
    ELSE c

\* if program_counter_state == self.program_counter { self.program_counter += (opcode.len - 1) }
AdvancePC(c, program_counter_state, len) ==
    IF ~c.panicked /\ program_counter_state = c.program_counter
    THEN Then(add_u16(c, c.program_counter, len - 1), LAMBDA pc :
             IF pc.c.panicked THEN pc.c
             ELSE [pc.c EXCEPT !.program_counter = pc.v])
    ELSE c

\* One turn of the loop of run_with_callback, up to (not including) the callback:
\* the CPU it leaves, the code fetched, the PC after the fetch, and whether the
\* loop returned.
RunStep(c) ==
    Then(mem_read(c, c.program_counter), LAMBDA code :
    Then(add_u16(code.c, c.program_counter, 1), LAMBDA pc :
    Then(IF pc.c.panicked THEN pc.c
         ELSE [pc.c EXCEPT !.program_counter = pc.v], LAMBDA c1 :
    Then(c1.program_counter, LAMBDA program_counter_state :
    Then(OPCODES_MAP(code.v), LAMBDA opcode :
    Then(IF c1.panicked THEN c1
         ELSE IF ~opcode.some THEN Panic(c1)
         ELSE IF IsReturn(code.v) THEN c1
         ELSE Then(Dispatch(c1, code.v, opcode.mode), LAMBDA c2 :
                  AdvancePC(c2, program_counter_state, opcode.len)), LAMBDA c3 :
        [c |-> c3, code |-> code.v,
         program_counter_state |-> program_counter_state,
         returned |-> ~c3.panicked /\ IsReturn(code.v)]))))))

-----------------------------------------------------------------------------
(* The state machine.                                                      *)

\* The CPU aggregate the variables hold, and the step to the aggregate c.
Cur ==
    [register_a |-> register_a, register_x |-> register_x,
     register_y |-> register_y, stack_pointer |-> stack_pointer,
     program_counter |-> program_counter, status |-> status,
     memory |-> memory, overflow_checks |-> overflow_checks,
     panicked |-> panicked]

Become(c) ==
    /\ register_a' = c.register_a
    /\ register_x' = c.register_x
    /\ register_y' = c.register_y
    /\ stack_pointer' = c.stack_pointer
    /\ program_counter' = c.program_counter
    /\ status' = c.status
    /\ memory' = c.memory
    /\ overflow_checks' = c.overflow_checks
    /\ panicked' = c.panicked

\* hist keeps the last two operations: the call, its arguments a1 and a2, the
\* value it returned, and the CPU before (pre) and after (post) it.
Entry(op, a1, a2, ret, post) ==
    [op |-> op, a1 |-> a1, a2 |-> a2, ret |-> ret, pre |-> Cur, post |-> post]

Log(e) == hist' = IF Len(hist) < 2 THEN Append(hist, e) ELSE <<hist[2], e>>

Last == hist[Len(hist)]
Before == hist[Len(hist) - 1]

\* A call from the host, outside the dispatch loop.
HostCall(bound, op, a1, a2, ret, post) ==
    /\ phase = "host"
    /\ ~panicked
    /\ nops < bound
    /\ \E c \in {post} : Become(c) /\ Log(Entry(op, a1, a2, ret, c))
    /\ nops' = nops + 1
    /\ UNCHANGED <<phase, fetched, called>>

InitNew ==
    /\ \E oc \in BOOLEAN :
          LET c == new(oc) IN
          /\ register_a = c.register_a
          /\ register_x = c.register_x
          /\ register_y = c.register_y
          /\ stack_pointer = c.stack_pointer
          /\ program_counter = c.program_counter
          /\ status = c.status
          /\ memory = c.memory
          /\ overflow_checks = c.overflow_checks
          /\ panicked = c.panicked
    /\ phase = "host"
    /\ hist = <<>>
    /\ fetched = 0
    /\ called = 0
    /\ nops = 0

-----------------------------------------------------------------------------
(* SpecMem: a test harness seeding and inspecting the address space.       *)

MaxMemOps == 3

MemAddrs == {\h0010, \hFFFD, \hFFFE, \hFFFF}
MemBytes == {\h00, \h5A, \hA5}
MemWords == {\h1234, \hA5FF}

MemRead(addr) ==
    LET r == mem_read(Cur, addr) IN HostCall(MaxMemOps, "mem_read", addr, 0, r.v, r.c)

MemWrite(addr, data) ==
    HostCall(MaxMemOps, "mem_write", addr, data, 0, mem_write(Cur, addr, data))

MemReadU16(pos) ==
    LET r == mem_read_u16(Cur, pos) IN HostCall(MaxMemOps, "mem_read_u16", pos, 0, r.v, r.c)

MemWriteU16(pos, data) ==
    HostCall(MaxMemOps, "mem_write_u16", pos, data, 0, mem_write_u16(Cur, pos, data))

NextMem ==
    \/ \E addr \in MemAddrs : MemRead(addr)
    \/ \E addr \in MemAddrs, data \in MemBytes : MemWrite(addr, data)
    \/ \E pos \in MemAddrs : MemReadU16(pos)
    \/ \E pos \in MemAddrs, data \in MemWords : MemWriteU16(pos, data)

SpecMem == InitNew /\ [][NextMem]_vars

-----------------------------------------------------------------------------
(* SpecStack: the stack interface driven directly, from any stack pointer   *)
(* (stack_pointer is a public field).                                      *)

MaxStackOps == 3

StackPointers == {\h00, \h01, \h80}
StackBytes == {\h00, \h5A, \hA5}
StackWords == {\h1234, \hA5FF}

SetStackPointer(sp) ==
    HostCall(MaxStackOps, "set_stack_pointer", sp, 0, 0,
             [Cur EXCEPT !.stack_pointer = sp])

StackPush(data) ==
    HostCall(MaxStackOps, "stack_push", data, 0, 0, stack_push(Cur, data))

StackPop ==
    LET r == stack_pop(Cur) IN HostCall(MaxStackOps, "stack_pop", 0, 0, r.v, r.c)

StackPushU16(data) ==
    HostCall(MaxStackOps, "stack_push_u16", data, 0, 0, stack_push_u16(Cur, data))

StackPopU16 ==
    LET r == stack_pop_u16(Cur)
    IN  HostCall(MaxStackOps, "stack_pop_u16", 0, 0, r.v, r.c)

NextStack ==
    \/ \E sp \in StackPointers : SetStackPointer(sp)
    \/ \E data \in StackBytes : StackPush(data)
    \/ StackPop
    \/ \E data \in StackWords : StackPushU16(data)
    \/ StackPopU16

SpecStack == InitNew /\ [][NextStack]_vars

-----------------------------------------------------------------------------
(* Spec: the life of an engine -- seed memory, load, reset, run.  The run  *)
(* is the loop of run_with_callback, one Step per opcode fetched and one   *)
(* Callback per invocation of the host's routine.                          *)

MaxHostOps == 3
MaxSteps == 4

Programs ==
    { <<\h00>>,                              \* BRK
      <<\hA5, \h10, \h00>>,                  \* LDA $10; BRK
      <<\hEA, \hA2, \h80, \h9A, \h00>>,      \* NOP; LDX #$80; TXS; BRK
      <<\h02>> }                             \* no official opcode

SeedWrites == { <<\h0010, \h55>>, <<\hFFFC, \h34>>, <<\hFFFD, \h12>> }

\* What the host's routine does with its &mut CPU: nothing (run()), or a write.
CallbackWrites == { <<\h0601, \h00>> }

Seed(addr, data) ==
    HostCall(MaxHostOps, "mem_write", addr, data, 0, mem_write(Cur, addr, data))

Load(bound, program) ==
    HostCall(bound, "load", program, 0, 0, load(Cur, program))

Reset(bound) ==
    HostCall(bound, "reset", 0, 0, 0, reset(Cur))

\* Entering run_with_callback: the loop is about to fetch.
EnterRun(bound, op, program, post) ==
    /\ phase = "host"
    /\ ~panicked
    /\ nops < bound
    /\ \E c \in {post} :
          /\ Become(c)
          /\ Log(Entry(op, program, 0, 0, c))
          /\ phase' = IF c.panicked THEN "host" ELSE "fetch"
    /\ nops' = nops + 1
    /\ fetched' = 0
    /\ called' = 0

Run(bound) == EnterRun(bound, "run", <<>>, Cur)

LoadAndRun(bound, program) ==
    EnterRun(bound, "load_and_run", program, reset(load(Cur, program)))

\* A variant: the callback is invoked after BRK as well.
AfterMatch_AlwaysCallback(returned) == "callback"

\* Where the loop goes after the match: out (BRK returned), or on to the callback.
AfterMatch(returned) == IF returned THEN "host" ELSE "callback"

Step(bound) ==
    /\ phase = "fetch"
    /\ ~panicked
    /\ fetched < bound
    /\ \E r \in {RunStep(Cur)} :
       /\ Become(r.c)
       /\ Log(Entry("step", r.code, r.program_counter_state, r.returned, r.c))
       /\ phase' = IF r.c.panicked THEN phase ELSE AfterMatch(r.returned)
    /\ fetched' = fetched + 1
    /\ UNCHANGED <<called, nops>>

\* callback(self), then back to the top of the loop.
Invoke(post) ==
    /\ phase = "callback"
    /\ ~panicked
    /\ \E c \in {post} :
          /\ Become(c)
          /\ Log(Entry("callback", 0, 0, 0, c))
          /\ phase' = IF c.panicked THEN phase ELSE "fetch"
    /\ called' = called + 1
    /\ UNCHANGED <<fetched, nops>>

CallbackNoop == Invoke(Cur)

CallbackWrite(addr, data) == Invoke(mem_write(Cur, addr, data))

Next ==
    \/ \E w \in SeedWrites : Seed(w[1], w[2])
    \/ \E program \in Programs : Load(MaxHostOps, program)
    \/ Reset(MaxHostOps)
    \/ Run(MaxHostOps)
    \/ \E program \in Programs : LoadAndRun(MaxHostOps, program)
    \/ Step(MaxSteps)
    \/ CallbackNoop
    \/ \E w \in CallbackWrites : CallbackWrite(w[1], w[2])

Spec == InitNew /\ [][Next]_vars

-----------------------------------------------------------------------------
(* SpecLoad: load, reset and load_and_run with programs of every size, up  *)
(* to the ones that reach the reset vector and the end of the array.       *)

MaxLoadOps == 2

\* BRK, padding, and a last byte that lands on 0xFFFC (kept as a tuple: \o
\* yields one, and a tuple is indexed in constant time).
ProgramUpToVector ==
    [i \in 1 .. (\hFFFC - LOAD_BASE + 1) |->
        IF i = \hFFFC - LOAD_BASE + 1 THEN \hEA ELSE \h00] \o <<>>

\* A program one byte longer than what is left of the array from 0x0600.
ProgramPastTheEnd == [i \in 1 .. (MEMORY_LEN - LOAD_BASE + 1) |-> \h00] \o <<>>

LoadPrograms ==
    { <<\h00>>,
      <<\hA9, \h05, \h00>>,                 \* LDA #$05; BRK
      ProgramUpToVector,
      ProgramPastTheEnd }

NextLoad ==
    \/ \E program \in LoadPrograms : Load(MaxLoadOps, program)
    \/ Reset(MaxLoadOps)
    \/ \E program \in LoadPrograms : LoadAndRun(MaxLoadOps, program)
    \/ Step(MaxSteps)
    \/ CallbackNoop

SpecLoad == InitNew /\ [][NextLoad]_vars

-----------------------------------------------------------------------------
(* SpecInstr: one instruction at a time.  The host sets the public         *)
(* registers, writes an instruction, its pointer and its operand byte with *)
(* mem_write, points program_counter at it and enters run_with_callback.   *)

MaxInstrSteps == 1

InstrBytes == {\h00, \h01, \h7F, \h80, \hFF}
InstrStatus == {\h24, \hE7}
InstrRegs ==
    { [x |-> \h00, y |-> \h01, sp |-> \hFF],
      [x |-> \h01, y |-> \hFF, sp |-> \h00],
      [x |-> \hFF, y |-> \h00, sp |-> \h80] }
Displacements == {\h00, \h01, \h7F, \h80, \hFE, \hFF}
BranchOrigins == {\h0010, \h0600, \hFFFD}

\* The operand byte of the instructions that address memory, and the bytes
\* their pointers are read from.
InstrBase == \h20
PointerByte == \h40

IsRelative(code) == code \in RelativeCodes
UsesPointer(code) == code \in IndirectXCodes \cup IndirectYCodes \cup {\h6C}
AddressesMemory(code) == OpMode(code) # "NonAddressing"

\* mem_write of every pair of a sequence of <<addr, data>>, in order.
RECURSIVE SeedAll(_, _)
SeedAll(c, writes) ==
    IF writes = <<>> THEN c
    ELSE SeedAll(mem_write(c, writes[1][1], writes[1][2]), Tail(writes))

\* The CPU the host has prepared: registers, the instruction at origin, the
\* pointer bytes if the instruction reads a pointer, the byte m where its
\* operand resolves to.
Prepared(oc, code, b1, origin, a, r, st, m) ==
    Then([new(oc) EXCEPT !.register_a = a, !.register_x = r.x, !.register_y = r.y,
                         !.stack_pointer = r.sp, !.status = st], LAMBDA c0 :
    Then(SeedAll(c0, << <<origin, code>>, <<origin + 1, b1>> >>), LAMBDA c1 :
    Then(IF UsesPointer(code)
         THEN SeedAll(c1, << <<\h1F, PointerByte>>, <<\h20, PointerByte>>,
                             <<\h21, PointerByte>> >>)
         ELSE c1, LAMBDA c2 :
    Then(IF AddressesMemory(code)
         THEN Then(get_operand_address([c2 EXCEPT !.program_counter = origin + 1],
                                       OpMode(code)), LAMBDA addr :
                  mem_write(c2, addr.v, m))
         ELSE c2, LAMBDA c3 :
        [c3 EXCEPT !.program_counter = origin]))))

InitInstr ==
    /\ \E oc \in BOOLEAN, code \in OfficialCodes, st \in InstrStatus :
       \E b1 \in (IF IsRelative(code) THEN Displacements ELSE {InstrBase}),
          origin \in (IF IsRelative(code) THEN BranchOrigins ELSE {LOAD_BASE}),
          a \in (IF IsRelative(code) THEN {\h00} ELSE InstrBytes),
          r \in (IF IsRelative(code) THEN {[x |-> \h00, y |-> \h01, sp |-> \hFF]}
                 ELSE InstrRegs),
          m \in (IF AddressesMemory(code) THEN InstrBytes ELSE {\h00}) :
       \E c \in {Prepared(oc, code, b1, origin, a, r, st, m)} :
          /\ register_a = c.register_a
          /\ register_x = c.register_x
          /\ register_y = c.register_y
          /\ stack_pointer = c.stack_pointer
          /\ program_counter = c.program_counter
          /\ status = c.status
          /\ memory = c.memory
          /\ overflow_checks = c.overflow_checks
          /\ panicked = c.panicked
    /\ phase = "fetch"
    /\ hist = <<>>
    /\ fetched = 0
    /\ called = 0
    /\ nops = 0

NextInstr ==
    \/ Step(MaxInstrSteps)
    \/ CallbackNoop

SpecInstr == InitInstr /\ [][NextInstr]_vars

-----------------------------------------------------------------------------
(* SpecAlu: one ADC or SBC.  The immediate opcodes run on every accumulator *)
(* and every operand byte, in the build with overflow checks (no u16       *)
(* addition of such a step comes near 0xFFFF); the other addressing        *)
(* variants run on the bytes of SpecInstr in both builds.                  *)

AdcCodes == {\h69, \h65, \h75, \h6D, \h7D, \h79, \h61, \h71}
SbcCodes == {\hE9, \hE5, \hF5, \hED, \hFD, \hF9, \hE1, \hF1}

AluBytes(code) == IF code \in ImmediateCodes THEN 0 .. \hFF ELSE InstrBytes
AluRegs(code) ==
    IF code \in ImmediateCodes THEN {[x |-> \h00, y |-> \h01, sp |-> \hFF]}
    ELSE InstrRegs
AluBuilds(code) == IF code \in ImmediateCodes THEN {TRUE} ELSE BOOLEAN

InitAlu ==
    /\ \E code \in AdcCodes \cup SbcCodes, st \in InstrStatus :
       \E oc \in AluBuilds(code), a \in AluBytes(code), m \in AluBytes(code),
          r \in AluRegs(code) :
       \E c \in {Prepared(oc, code, InstrBase, LOAD_BASE, a, r, st, m)} :
          /\ register_a = c.register_a
          /\ register_x = c.register_x
          /\ register_y = c.register_y
          /\ stack_pointer = c.stack_pointer
          /\ program_counter = c.program_counter
          /\ status = c.status
          /\ memory = c.memory
          /\ overflow_checks = c.overflow_checks
          /\ panicked = c.panicked
    /\ phase = "fetch"
    /\ hist = <<>>
    /\ fetched = 0
    /\ called = 0
    /\ nops = 0

NextAlu == Step(MaxInstrSteps)

SpecAlu == InitAlu /\ [][NextAlu]_vars

-----------------------------------------------------------------------------
(* SpecCmp: one CMP, CPX or CPY.  The immediate opcodes run on every value  *)
(* of the compared register and every operand byte, the other addressing   *)
(* variants on the bytes of SpecInstr.                                     *)

CmpCodes == {\hC9, \hC5, \hD5, \hCD, \hDD, \hD9, \hC1, \hD1}
CpxCodes == {\hE0, \hE4, \hEC}
CpyCodes == {\hC0, \hC4, \hCC}

\* The registers with v in the one the opcode compares.
CompareRegs(code, r, v) ==
    CASE code \in CpxCodes -> [r EXCEPT !.x = v]
      [] code \in CpyCodes -> [r EXCEPT !.y = v]
      [] OTHER -> r

InitCmp ==
    /\ \E code \in CmpCodes \cup CpxCodes \cup CpyCodes, st \in InstrStatus :
       \E oc \in AluBuilds(code), v \in AluBytes(code), m \in AluBytes(code),
          r \in AluRegs(code) :
       \E c \in {Prepared(oc, code, InstrBase, LOAD_BASE,
                          IF code \in CmpCodes THEN v ELSE \h5A,
                          CompareRegs(code, r, v), st, m)} :
          /\ register_a = c.register_a
          /\ register_x = c.register_x
          /\ register_y = c.register_y
          /\ stack_pointer = c.stack_pointer
          /\ program_counter = c.program_counter
          /\ status = c.status
          /\ memory = c.memory
          /\ overflow_checks = c.overflow_checks
          /\ panicked = c.panicked
    /\ phase = "fetch"
    /\ hist = <<>>
    /\ fetched = 0
    /\ called = 0
    /\ nops = 0

NextCmp == Step(MaxInstrSteps)

SpecCmp == InitCmp /\ [][NextCmp]_vars

-----------------------------------------------------------------------------
(* SpecAddr: the operand resolver called directly (get_operand_address is   *)
(* public), with program_counter at an operand whose pointer arithmetic    *)
(* crosses the end of the zero page or of the address space.               *)

MaxAddrOps == 1

AddrModes ==
    {"Immediate", "ZeroPage", "ZeroPageX", "ZeroPageY", "Absolute", "AbsoluteX",
     "AbsoluteY", "IndirectX", "IndirectY", "NonAddressing"}

\* The operand's low and high byte, the index registers, the operand's place.
AddrOperands == {\h00, \h7F, \hFE, \hFF}
AddrHighBytes == {\h00, \hFF}
AddrIndexes == {\h00, \h01, \h02, \hFF}
OperandAt == \h0601

\* The cells at both ends of the zero page and behind it: all different, or all
\* 0xFF so that a pointer read there is 0xFFFF.
ZeroPageFills ==
    { << <<\h0000, \h11>>, <<\h0001, \h22>>, <<\h0002, \h33>>, <<\h007F, \h44>>,
         <<\h0080, \h55>>, <<\h00FE, \h66>>, <<\h00FF, \h77>>, <<\h0100, \h88>>,
         <<\h0101, \h99>> >>,
      << <<\h0000, \hFF>>, <<\h0001, \hFF>>, <<\h0002, \hFF>>, <<\h007F, \hFF>>,
         <<\h0080, \hFF>>, <<\h00FE, \hFF>>, <<\h00FF, \hFF>>, <<\h0100, \hFF>>,
         <<\h0101, \hFF>> >> }

InitAddr ==
    /\ \E oc \in BOOLEAN, b \in AddrOperands, h \in AddrHighBytes,
          x \in AddrIndexes, y \in AddrIndexes, fill \in ZeroPageFills :
       \E c \in {SeedAll([new(oc) EXCEPT !.register_x = x, !.register_y = y,
                                        !.program_counter = OperandAt],
                         fill \o << <<OperandAt, b>>, <<OperandAt + 1, h>> >>)} :
          /\ register_a = c.register_a
          /\ register_x = c.register_x
          /\ register_y = c.register_y
          /\ stack_pointer = c.stack_pointer
          /\ program_counter = c.program_counter
          /\ status = c.status
          /\ memory = c.memory
          /\ overflow_checks = c.overflow_checks
          /\ panicked = c.panicked
    /\ phase = "host"
    /\ hist = <<>>
    /\ fetched = 0
    /\ called = 0
    /\ nops = 0

GetOperandAddress(mode) ==
    \E r \in {get_operand_address(Cur, mode)} :
        HostCall(MaxAddrOps, "get_operand_address", mode, 0, r.v, r.c)

NextAddr == \E mode \in AddrModes : GetOperandAddress(mode)

SpecAddr == InitAddr /\ [][NextAddr]_vars

-----------------------------------------------------------------------------
(* SpecJump: one JMP, JSR, RTS or RTI.  The host writes the instruction,   *)
(* the cells an indirect JMP reads or the bytes a return pops, and enters  *)
(* run_with_callback.                                                      *)

FlowCodes == {\h4C, \h6C, \h20, \h60, \h40}

\* The operand word: a target, or the pointer of an indirect JMP.
JumpPointers == {\h00FF, \h02FF, \h0200, \h1234, \h3400, \hFEFF, \hFFFE, \hFFFF}
FlowBytes == {\h00, \h34, \hFF}

\* 0x33FF: the address behind the opcode, 0x3400, is one of the targets.
FlowOrigins(code) ==
    CASE code = \h20 -> {LOAD_BASE, \h33FF, \hFFFC, \hFFFD}
      [] code = \h4C -> {LOAD_BASE, \h33FF, \hFFFC}
      [] code = \h6C -> {LOAD_BASE, \h33FF}
      [] OTHER -> {LOAD_BASE}
FlowWords(code) == IF code \in JumpCodes THEN JumpPointers ELSE {\h0000}
FlowStackPointers(code) ==
    CASE code = \h20 -> {\h00, \h01, \hFF}
      [] code \in {\h60, \h40} -> {\hFC, \hFD, \hFF}
      [] OTHER -> {STACK_RESET}
FlowCellBytes(code) == IF code \in {\h6C, \h60, \h40} THEN FlowBytes ELSE {\h00}

\* What the instruction reads besides its own bytes: for an indirect JMP with
\* pointer word, s1 at word, s2 at word + 1 and s3 at the start of word's page;
\* for a return, s1, s2, s3 as the next three bytes to pop.
FlowCells(code, word, sp, s1, s2, s3) ==
    CASE code = \h6C ->
            << <<word - (word % 256), s3>>, <<(word + 1) % U16, s2>>, <<word, s1>> >>
      [] code \in {\h60, \h40} ->
            << <<STACK + ((sp + 1) % U8), s1>>, <<STACK + ((sp + 2) % U8), s2>>,
               <<STACK + ((sp + 3) % U8), s3>> >>
      [] OTHER -> <<>>

\* The CPU the host has prepared; it writes no byte outside the array.
PreparedFlow(oc, code, origin, word, sp, s1, s2, s3) ==
    Then(<< <<origin, code>>, <<origin + 1, word % 256>>,
            <<origin + 2, word \div 256>> >>
         \o FlowCells(code, word, sp, s1, s2, s3), LAMBDA writes :
        SeedAll([new(oc) EXCEPT !.stack_pointer = sp, !.program_counter = origin],
                SelectSeq(writes, LAMBDA w : w[1] < MEMORY_LEN)))

InitJump ==
    /\ \E oc \in BOOLEAN, code \in FlowCodes :
       \E origin \in FlowOrigins(code), word \in FlowWords(code),
          sp \in FlowStackPointers(code),
          s1 \in FlowCellBytes(code), s2 \in FlowCellBytes(code),
          s3 \in FlowCellBytes(code) :
       \E c \in {PreparedFlow(oc, code, origin, word, sp, s1, s2, s3)} :
          /\ register_a = c.register_a
          /\ register_x = c.register_x
          /\ register_y = c.register_y
          /\ stack_pointer = c.stack_pointer
          /\ program_counter = c.program_counter
          /\ status = c.status
          /\ memory = c.memory
          /\ overflow_checks = c.overflow_checks
          /\ panicked = c.panicked
    /\ phase = "fetch"
    /\ hist = <<>>
    /\ fetched = 0
    /\ called = 0
    /\ nops = 0

NextJump ==
    \/ Step(MaxInstrSteps)
    \/ CallbackNoop

SpecJump == InitJump /\ [][NextJump]_vars

-----------------------------------------------------------------------------
(* SpecDecode: one step on each of the 256 byte values as the opcode, the  *)
(* operands and registers inside the array and away from its end.          *)

AllCodes == 0 .. \hFF

InitDecode ==
    /\ \E oc \in BOOLEAN, code \in AllCodes, st \in InstrStatus, r \in InstrRegs :
       \E c \in {Prepared(oc, code, InstrBase, LOAD_BASE, \h80, r, st, \h01)} :
          /\ register_a = c.register_a
          /\ register_x = c.register_x
          /\ register_y = c.register_y
          /\ stack_pointer = c.stack_pointer
          /\ program_counter = c.program_counter
          /\ status = c.status
          /\ memory = c.memory
          /\ overflow_checks = c.overflow_checks
          /\ panicked = c.panicked
    /\ phase = "fetch"
    /\ hist = <<>>
    /\ fetched = 0
    /\ called = 0
    /\ nops = 0

NextDecode ==
    \/ Step(MaxInstrSteps)
    \/ CallbackNoop

SpecDecode == InitDecode /\ [][NextDecode]_vars

-----------------------------------------------------------------------------
(* SpecSeq: run() on short programs.  run passes a callback that does      *)
(* nothing, so a turn of its loop is one action: the instruction and the   *)
(* empty callback.  The value the program works on (P, X, Y, a memory cell *)
(* or the byte on the stack) ranges over every byte.                       *)

MaxSeqSteps == 4

IncDecMemory == {\hE6, \hF6, \hEE, \hFE, \hC6, \hD6, \hCE, \hDE}
RotateSeqMemory == {\h26, \h36, \h2E, \h3E, \h66, \h76, \h6E, \h7E}

SeqPrograms ==
    { <<\h08, \h28>>, <<\h28>>,
      <<\hE8, \hCA>>, <<\hCA, \hE8>>, <<\hC8, \h88>>, <<\h88, \hC8>>,
      <<\hE6, \h20, \hC6, \h20>>, <<\hC6, \h20, \hE6, \h20>>,
      <<\hF6, \h20>>, <<\hEE, \h20, \h00>>, <<\hFE, \h20, \h00>>,
      <<\hD6, \h20>>, <<\hCE, \h20, \h00>>, <<\hDE, \h20, \h00>>,
      <<\hA9, \hFF, \hAA, \hE8, \hE8>>,
      <<\h20, \h05, \h06, \h00, \h00, \h60>>, <<\h20, \h03, \h06, \h60>>,
      <<\h20, \h01, \h06>>,
      <<\h2A, \h6A>>, <<\h6A, \h2A>>,
      <<\h26, \h20, \h66, \h20>>, <<\h66, \h20, \h26, \h20>>,
      <<\h3E, \h20, \h00, \h7E, \h20, \h00>>,
      <<\h6E, \h20, \h00, \h2E, \h20, \h00>>,
      <<\h36, \h20, \h76, \h20>> }

\* What the value of a run is given to, by the program's first opcode.
SeqRole(program) ==
    CASE program[1] = \h08 -> "status"
      [] program[1] = \h28 -> "stack"
      [] program[1] \in {\hE8, \hCA} -> "x"
      [] program[1] \in {\hC8, \h88} -> "y"
      [] program[1] \in IncDecMemory \cup RotateSeqMemory -> "memory"
      [] program[1] \in {\h2A, \h6A} -> "a"
      [] program[1] = \h20 -> "call"
      [] OTHER -> "none"

SeqValues(program) ==
    IF SeqRole(program) \in {"none", "call"} THEN {\h00} ELSE 0 .. \hFF
SeqStatus(program) == IF SeqRole(program) = "status" THEN {\h24} ELSE InstrStatus
SeqStackPointers(program) ==
    CASE SeqRole(program) \in {"status", "stack"} -> {\h00, \h80, \hFF}
      [] SeqRole(program) = "call" -> {\h00, \h01, STACK_RESET, \hFF}
      [] OTHER -> {STACK_RESET}

\* The CPU the host has prepared: the program at 0x0600, the value in its place.
PreparedSeq(oc, program, v, st, sp) ==
    Then(SeqRole(program), LAMBDA role :
    Then([new(oc) EXCEPT !.register_a = IF role = "a" THEN v ELSE \h00,
                         !.register_x = IF role = "x" THEN v ELSE \h01,
                         !.register_y = IF role = "y" THEN v ELSE \h01,
                         !.status = IF role = "status" THEN v ELSE st,
                         !.stack_pointer = sp], LAMBDA c0 :
    Then(SeedAll(c0, [i \in 1 .. Len(program) |-> <<LOAD_BASE + i - 1, program[i]>>]),
         LAMBDA c1 :
    Then(CASE role = "stack" -> mem_write(c1, STACK + ((sp + 1) % U8), v)
           [] role = "memory" ->
                Then(get_operand_address([c1 EXCEPT !.program_counter = LOAD_BASE + 1],
                                         OpMode(program[1])), LAMBDA addr :
                    mem_write(c1, addr.v, v))
           [] OTHER -> c1, LAMBDA c2 :
        [c2 EXCEPT !.program_counter = LOAD_BASE]))))

InitSeq ==
    /\ \E oc \in BOOLEAN, program \in SeqPrograms :
       \E v \in SeqValues(program), st \in SeqStatus(program),
          sp \in SeqStackPointers(program) :
       \E c \in {PreparedSeq(oc, program, v, st, sp)} :
          /\ register_a = c.register_a
          /\ register_x = c.register_x
          /\ register_y = c.register_y
          /\ stack_pointer = c.stack_pointer
          /\ program_counter = c.program_counter
          /\ status = c.status
          /\ memory = c.memory
          /\ overflow_checks = c.overflow_checks
          /\ panicked = c.panicked
    /\ phase = "fetch"
    /\ hist = <<>>
    /\ fetched = 0
    /\ called = 0
    /\ nops = 0

\* One turn of the loop under run(): the instruction, then the empty callback.
RunTurn(bound) ==
    /\ phase = "fetch"
    /\ ~panicked
    /\ fetched < bound
    /\ \E r \in {RunStep(Cur)} :
       /\ Become(r.c)
       /\ Log(Entry("step", r.code, r.program_counter_state, r.returned, r.c))
       /\ phase' = IF r.c.panicked THEN phase
                   ELSE IF AfterMatch(r.returned) = "callback" THEN "fetch"
                   ELSE AfterMatch(r.returned)
       /\ called' = IF ~r.c.panicked /\ AfterMatch(r.returned) = "callback"
                    THEN called + 1 ELSE called
    /\ fetched' = fetched + 1
    /\ UNCHANGED nops

NextSeq == RunTurn(MaxSeqSteps)

SpecSeq == InitSeq /\ [][NextSeq]_vars

-----------------------------------------------------------------------------
(* SpecStatus: one turn of run()'s loop, for every official opcode, from   *)
(* every status byte an instruction can leave (U set, B clear).  PLP and   *)
(* RTI pop every byte.                                                     *)

\* The status bytes with bit 5 set and bit 4 clear.
StatusBytes == { st \in 0 .. \hFF : (st \div 16) % 4 = 2 }
StatusOperands == {\h00, \hFF}
PullsStatus == {\h28, \h40}
PoppedBytes(code) == IF code \in PullsStatus THEN 0 .. \hFF ELSE {\h00}

\* The CPU the host has prepared: as Prepared, and the byte the next pop reads.
PreparedStatus(oc, code, b1, a, r, st, m, popped) ==
    Then(Prepared(oc, code, b1, LOAD_BASE, a, r, st, m), LAMBDA c :
        IF code \in PullsStatus
        THEN mem_write(c, STACK + ((r.sp + 1) % U8), popped)
        ELSE c)

InitStatus ==
    /\ \E oc \in BOOLEAN, code \in OfficialCodes, st \in StatusBytes :
       \E b1 \in (IF IsRelative(code) THEN Displacements ELSE {InstrBase}),
          a \in (IF IsRelative(code) \/ code \in PullsStatus THEN {\h00}
                 ELSE StatusOperands),
          r \in (IF IsRelative(code) \/ code \in PullsStatus
                 THEN {[x |-> \h00, y |-> \h01, sp |-> \hFF]}
                 ELSE InstrRegs),
          m \in (IF AddressesMemory(code) THEN StatusOperands ELSE {\h00}),
          popped \in PoppedBytes(code) :
       \E c \in {PreparedStatus(oc, code, b1, a, r, st, m, popped)} :
          /\ register_a = c.register_a
          /\ register_x = c.register_x
          /\ register_y = c.register_y
          /\ stack_pointer = c.stack_pointer
          /\ program_counter = c.program_counter
          /\ status = c.status
          /\ memory = c.memory
          /\ overflow_checks = c.overflow_checks
          /\ panicked = c.panicked
    /\ phase = "fetch"
    /\ hist = <<>>
    /\ fetched = 0
    /\ called = 0
    /\ nops = 0

NextStatus == RunTurn(MaxInstrSteps)

SpecStatus == InitStatus /\ [][NextStatus]_vars

-----------------------------------------------------------------------------
(* The claims.                                                             *)

Did(op) == Len(hist) >= 1 /\ Last.op = op
DidPair(op1, op2) == Len(hist) = 2 /\ Before.op = op1 /\ Last.op = op2

\* C1: mem_read and mem_write succeed at every 16-bit address, 0xFFFF included:
\* neither aborts, a write leaves its byte at the address, a read returns the
\* byte the memory holds there, and a read right after a write to the same
\* address returns the byte written.
C1_EveryAddressIsValid ==
    /\ Did("mem_write") =>
          /\ ~Last.post.panicked
          /\ Peek(Last.post.memory, Last.a1) = Last.a2
    /\ Did("mem_read") =>
          /\ ~Last.post.panicked
          /\ Last.ret = Peek(Last.pre.memory, Last.a1)
    /\ (DidPair("mem_write", "mem_read") /\ Before.a1 = Last.a1) =>
          Last.ret = Before.a2

\* C4: stack_push(b) then stack_pop() returns b and restores SP; stack_push_u16(w)
\* then stack_pop_u16() returns w and restores SP; from every SP, wrapping included.
C4_StackRoundTrip ==
    /\ DidPair("stack_push", "stack_pop") =>
          /\ ~Last.post.panicked
          /\ Last.ret = Before.a1
          /\ Last.post.stack_pointer = Before.pre.stack_pointer
    /\ DidPair("stack_push_u16", "stack_pop_u16") =>
          /\ ~Last.post.panicked
          /\ Last.ret = Before.a1
          /\ Last.post.stack_pointer = Before.pre.stack_pointer

\* A 16-bit round trip that starts at SP = 0x00 (so SP wraps to 0xFF inside the
\* push) and returns a word whose two bytes differ.
C4_Witness ==
    /\ DidPair("stack_push_u16", "stack_pop_u16")
    /\ Before.pre.stack_pointer = 0
    /\ Before.post.stack_pointer = 254
    /\ Last.ret = \hA5FF
    /\ stack_pointer = 0

\* C10: mem_read_u16 and mem_write_u16 are little-endian at addr and
\* (addr + 1) mod 2^16 for every addr, 0xFFFF included, and a write followed by
\* a read of the same addr returns the word.
C10_Word16EveryAddress ==
    /\ Did("mem_read_u16") =>
          /\ ~Last.post.panicked
          /\ Last.ret = from_le_bytes(Peek(Last.pre.memory, Last.a1),
                                      Peek(Last.pre.memory, (Last.a1 + 1) % U16))
    /\ Did("mem_write_u16") =>
          /\ ~Last.post.panicked
          /\ Peek(Last.post.memory, Last.a1) = Last.a2 % 256
          /\ Peek(Last.post.memory, (Last.a1 + 1) % U16) = Last.a2 \div 256
    /\ (DidPair("mem_write_u16", "mem_read_u16") /\ Before.a1 = Last.a1) =>
          Last.ret = Before.a2

\* C5: right after reset(), whatever the state before, A = X = Y = 0, SP = 0xFF,
\* P = 0b00100100 and PC is the little-endian word at 0xFFFC; reset as the first
\* operation on a new CPU gives PC = 0.
C5_Reset ==
    Did("reset") =>
        /\ ~Last.post.panicked
        /\ register_a = 0 /\ register_x = 0 /\ register_y = 0
        /\ stack_pointer = \hFF
        /\ status = 36
        /\ program_counter = Peek(Last.pre.memory, \hFFFC)
                             + 256 * Peek(Last.pre.memory, \hFFFD)
        /\ nops = 1 => program_counter = 0

\* A reset of an engine whose run left X = SP = 0x80 and N set, with the high
\* byte of the vector rewritten after the load.
C5_Witness ==
    /\ Did("reset")
    /\ Last.pre.register_x = \h80
    /\ Last.pre.stack_pointer = \h80
    /\ Last.pre.status = \hA4
    /\ Last.pre.program_counter # \h1200
    /\ program_counter = \h1200
    /\ register_x = 0 /\ stack_pointer = \hFF /\ status = 36

\* The addresses load(program) may write.
LoadFootprint(program) ==
    (\h0600 .. (\h0600 + Len(program) - 1)) \cup {\hFFFC, \hFFFD}

SameRegisters(c, d) ==
    /\ c.register_a = d.register_a
    /\ c.register_x = d.register_x
    /\ c.register_y = d.register_y
    /\ c.stack_pointer = d.stack_pointer
    /\ c.program_counter = d.program_counter
    /\ c.status = d.status

\* C7: reset() leaves every memory byte as it was; load(program) changes no
\* register and no byte outside the program's range and 0xFFFC..0xFFFD; so a
\* byte seeded by mem_write outside them is still there when load_and_run starts
\* the program.
C7_Frame ==
    /\ Did("reset") => Last.post.memory = Last.pre.memory
    /\ Did("load") =>
          /\ SameRegisters(Last.post, Last.pre)
          /\ \A a \in (DOMAIN Last.pre.memory \cup DOMAIN Last.post.memory)
                      \ LoadFootprint(Last.a1) :
                Peek(Last.post.memory, a) = Peek(Last.pre.memory, a)
    /\ (DidPair("mem_write", "load_and_run") /\ Before.a1 \notin LoadFootprint(Last.a1)) =>
          Peek(memory, Before.a1) = Before.a2

\* mem_write(0x10, 0x55); load_and_run([LDA $10, BRK]): the LDA has read the seed.
C7_Witness ==
    /\ DidPair("load_and_run", "step")
    /\ Before.a1 = <<\hA5, \h10, \h00>>
    /\ Peek(Before.pre.memory, \h10) = \h55
    /\ Before.pre.memory # Before.post.memory
    /\ Last.a1 = \hA5
    /\ register_a = \h55

\* C8: the loop returns exactly when the opcode fetched is 0x00; that step changes
\* nothing but PC, which moves past the opcode; load_and_run([0x00]) leaves
\* A = X = Y = 0.
C8_ReturnsOnBrkOnly ==
    /\ Did("step") =>
          /\ Last.ret <=> (Last.a1 = \h00 /\ ~Last.post.panicked)
          /\ (phase = "host") <=> Last.ret
          /\ Last.ret =>
                Last.post = [Last.pre EXCEPT !.program_counter = @ + 1]
    /\ (DidPair("load_and_run", "step") /\ Before.a1 = <<\h00>>) =>
          /\ Last.ret
          /\ register_a = 0 /\ register_x = 0 /\ register_y = 0

C8_Witness ==
    /\ DidPair("load_and_run", "step")
    /\ Before.a1 = <<\h00>>
    /\ Last.a1 = \h00
    /\ Last.ret
    /\ phase = "host"
    /\ program_counter = \h0601

\* C9, as claimed: the callback is invoked once after each opcode fetched, so that
\* whenever the loop is not between an instruction and its callback, as many
\* callbacks have been invoked as opcodes fetched.
C9_OneCallbackPerFetch ==
    (phase \in {"host", "fetch"} /\ ~panicked) => called = fetched

\* C9, amended: the callback is invoked once after each instruction other than
\* the BRK that ends the run -- after the instruction's effects and its PC
\* advance, before the next fetch, which starts from the CPU as the callback
\* left it; the BRK step returns without invoking it (k fetches, k - 1 callbacks).
C9_CallbackAfterEachButBrk ==
    /\ (phase = "fetch" /\ ~panicked) => called = fetched
    /\ phase = "callback" =>
          /\ Did("step") /\ ~Last.ret
          /\ called + 1 = fetched
    /\ (Did("step") /\ Last.ret) =>
          /\ phase = "host"
          /\ called + 1 = fetched
    /\ Did("callback") =>
          /\ DidPair("step", "callback")
          /\ ~Before.ret
          /\ Last.pre = Before.post
    /\ DidPair("callback", "step") => Last.pre = Before.post

\* The callback replaced the next opcode (LDX) by BRK; the next fetch read the
\* BRK and the run returned after 2 fetches and 1 callback.
C9_Witness ==
    /\ DidPair("callback", "step")
    /\ Peek(Before.pre.memory, \h0601) = \hA2
    /\ Last.pre.program_counter = \h0601
    /\ Last.a1 = \h00
    /\ Last.ret
    /\ fetched = 2 /\ called = 1

\* C6, as claimed: after load(program), for a program of any length n, the n
\* bytes are at 0x0600.., 0xFFFC holds 0x00 and 0xFFFD holds 0x06; a reset that
\* follows sets PC = 0x0600 and load_and_run fetches the first program byte first.
C6_LoadAnyProgram ==
    /\ Did("load") =>
          /\ ~Last.post.panicked
          /\ \A i \in 1 .. Len(Last.a1) :
                Peek(Last.post.memory, \h0600 + i - 1) = Last.a1[i]
          /\ Peek(Last.post.memory, \hFFFC) = \h00
          /\ Peek(Last.post.memory, \hFFFD) = \h06
    /\ DidPair("load", "reset") => program_counter = \h0600
    /\ Did("load_and_run") => ~panicked /\ program_counter = \h0600
    /\ DidPair("load_and_run", "step") => Last.a1 = Before.a1[1]

\* The longest program that ends below the reset vector.
LoadFits(program) == \h0600 + Len(program) <= \hFFFC

\* C6, amended: the same for a program that ends below the reset vector
\* (n <= 0xF9FC bytes).
C6_LoadBelowVector ==
    /\ (Did("load") /\ LoadFits(Last.a1)) =>
          /\ ~Last.post.panicked
          /\ \A i \in 1 .. Len(Last.a1) :
                Peek(Last.post.memory, \h0600 + i - 1) = Last.a1[i]
          /\ Peek(Last.post.memory, \hFFFC) = \h00
          /\ Peek(Last.post.memory, \hFFFD) = \h06
    /\ (DidPair("load", "reset") /\ LoadFits(Before.a1)) => program_counter = \h0600
    /\ (Did("load_and_run") /\ LoadFits(Last.a1)) =>
          ~panicked /\ program_counter = \h0600
    /\ (DidPair("load_and_run", "step") /\ LoadFits(Before.a1)) =>
          /\ Last.pre.program_counter = \h0600
          /\ Last.a1 = Before.a1[1]

\* load_and_run([LDA #$05, BRK]) has fetched the LDA at 0x0600, with the vector
\* bytes in place.
C6_Witness ==
    /\ DidPair("load_and_run", "step")
    /\ Before.a1 = <<\hA9, \h05, \h00>>
    /\ Peek(memory, \h0600) = \hA9 /\ Peek(memory, \h0601) = \h05
    /\ Peek(memory, \hFFFC) = \h00 /\ Peek(memory, \hFFFD) = \h06
    /\ Last.a1 = \hA9
    /\ Last.pre.program_counter = \h0600
    /\ register_a = \h05

\* The opcodes of LDA, AND, ORA, EOR, ADC, SBC, TXA, TYA and of the accumulator
\* variants of ASL, LSR, ROL, ROR: the result is written to A.
ResultInA ==
    {\hA9, \hA5, \hB5, \hAD, \hBD, \hB9, \hA1, \hB1,
     \h29, \h25, \h35, \h2D, \h3D, \h39, \h21, \h31,
     \h09, \h05, \h15, \h0D, \h1D, \h19, \h01, \h11,
     \h49, \h45, \h55, \h4D, \h5D, \h59, \h41, \h51,
     \h69, \h65, \h75, \h6D, \h7D, \h79, \h61, \h71,
     \hE9, \hE5, \hF5, \hED, \hFD, \hF9, \hE1, \hF1,
     \h8A, \h98, \h0A, \h4A, \h2A, \h6A}

\* LDX, TAX, TSX, INX, DEX.
ResultInX == {\hA2, \hA6, \hB6, \hAE, \hBE, \hAA, \hBA, \hE8, \hCA}

\* LDY, TAY, INY, DEY.
ResultInY == {\hA0, \hA4, \hB4, \hAC, \hBC, \hA8, \hC8, \h88}

\* The memory variants of ROL and ROR.
RotateMemory == {\h26, \h36, \h2E, \h3E, \h66, \h76, \h6E, \h7E}

\* The memory variants of INC, DEC, ASL, LSR, ROL, ROR.
ResultInMemory ==
    {\hE6, \hF6, \hEE, \hFE, \hC6, \hD6, \hCE, \hDE,
     \h06, \h16, \h0E, \h1E, \h46, \h56, \h4E, \h5E} \cup RotateMemory

\* The memory cell the instruction of step e addresses.
Target(e) ==
    get_operand_address([e.pre EXCEPT !.program_counter = e.a2], OpMode(e.a1)).v

\* The value the instruction of step e wrote to its register or memory cell.
Result(e) ==
    CASE e.a1 \in ResultInA -> e.post.register_a
      [] e.a1 \in ResultInX -> e.post.register_x
      [] e.a1 \in ResultInY -> e.post.register_y
      [] e.a1 \in ResultInMemory -> Peek(e.post.memory, Target(e))

\* C2: after any of the 23 mnemonics, in every addressing variant, Z = (result = 0)
\* and N = bit 7 of the result, the result being the value written to the register
\* or the memory cell.
C2_ZeroAndNegativeFollowResult ==
    (/\ Did("step")
     /\ Last.a1 \in ResultInA \cup ResultInX \cup ResultInY \cup ResultInMemory
     /\ ~Last.post.panicked) =>
        \E result \in {Result(Last)} :
            /\ ((status \div 2) % 2 = 1) <=> (result = 0)
            /\ ((status \div 128) % 2 = 1) <=> (result >= 128)

\* The branch condition of each relative opcode, on the status byte.
Taken(code, st) ==
    CASE code = \h90 -> (st % 2) = 0                  \* BCC
      [] code = \hB0 -> (st % 2) = 1                  \* BCS
      [] code = \hF0 -> ((st \div 2) % 2) = 1         \* BEQ
      [] code = \hD0 -> ((st \div 2) % 2) = 0         \* BNE
      [] code = \h30 -> ((st \div 128) % 2) = 1       \* BMI
      [] code = \h10 -> ((st \div 128) % 2) = 0       \* BPL
      [] code = \h50 -> ((st \div 64) % 2) = 0        \* BVC
      [] code = \h70 -> ((st \div 64) % 2) = 1        \* BVS

SignExtend(disp) == IF disp >= 128 THEN disp - 256 ELSE disp

\* C3: at the end of the step of a branch, PC = (saved_PC + 1 + signextend(disp))
\* mod 2^16 if the condition held, for every displacement, and saved_PC + 1 if it
\* did not; saved_PC is the address of the operand byte.
C3_BranchTarget ==
    (Did("step") /\ Last.a1 \in RelativeCodes /\ ~Last.post.panicked) =>
        \E disp \in {Peek(Last.pre.memory, Last.a2)} :
            program_counter =
                IF Taken(Last.a1, Last.pre.status)
                THEN (Last.a2 + 1 + SignExtend(disp)) % 65536
                ELSE Last.a2 + 1

\* The byte the instruction of step e read as its operand, and its carry-in.
OperandByte(e) == Peek(e.pre.memory, Target(e))
CarryIn(e) == e.pre.status % 2

\* Flag bit i of a status byte, as 0 or 1.
Flag(st, i) == (st \div (2 ^ i)) % 2

\* C11: after ADC, for every A, M and carry-in, V is set iff A and M have the
\* same sign bit and the 8-bit result the opposite one, that is iff the signed
\* sum A + M + C lies outside -128..127.
C11_AdcOverflow ==
    (Did("step") /\ Last.a1 \in AdcCodes) =>
        \E a \in {Last.pre.register_a}, m \in {OperandByte(Last)}, cin \in {CarryIn(Last)} :
            /\ ~Last.post.panicked
            /\ (Flag(status, 6) = 1) <=>
                  (/\ a \div 128 = m \div 128
                   /\ register_a \div 128 # a \div 128)
            /\ (Flag(status, 6) = 1) <=>
                  (SignExtend(a) + SignExtend(m) + cin \notin (-128) .. 127)

\* ADC of 0x7F to 0x00 with the carry set: the signed sum is 128 and V is set
\* although neither operand alone would overflow.
C11_Witness ==
    /\ Did("step") /\ Last.a1 \in AdcCodes
    /\ Last.pre.register_a = \h00
    /\ OperandByte(Last) = \h7F
    /\ CarryIn(Last) = 1
    /\ register_a = \h80
    /\ Flag(status, 6) = 1

\* C12: for every A, M and carry-in C, ADC leaves A = (A + M + C) mod 256 and
\* sets the carry flag iff A + M + C > 0xFF; with A = 5 and P as reset and LDA #5
\* leave it, ADC #0xFF gives A = 0x04 and C = 1.
C12_AdcSumAndCarry ==
    (Did("step") /\ Last.a1 \in AdcCodes) =>
        \E a \in {Last.pre.register_a}, m \in {OperandByte(Last)}, cin \in {CarryIn(Last)} :
            /\ ~Last.post.panicked
            /\ register_a = (a + m + cin) % 256
            /\ (Flag(status, 0) = 1) <=> (a + m + cin > \hFF)
            /\ (Last.a1 = \h69 /\ a = \h05 /\ m = \hFF /\ Last.pre.status = \h24) =>
                  (register_a = \h04 /\ Flag(status, 0) = 1)

\* ADC #0xFF on A = 5 with the flags of a reset CPU: A = 0x04, carry out.
C12_Witness ==
    /\ Did("step") /\ Last.a1 = \h69
    /\ Last.pre.register_a = \h05
    /\ OperandByte(Last) = \hFF
    /\ Last.pre.status = \h24
    /\ register_a = \h04
    /\ status = \h25

\* Bits C, Z, V, N of a status byte.
ArithmeticFlags(st) == <<Flag(st, 0), Flag(st, 1), Flag(st, 6), Flag(st, 7)>>

\* C13: for every A, M and carry-in C, SBC leaves A = (A - M - (1 - C)) mod 256,
\* sets the carry flag iff no borrow occurred (A >= M + (1 - C)), and leaves the
\* A, C, V, Z, N that ADC leaves on the operand 255 - M.
C13_SbcIsAdcOfComplement ==
    (Did("step") /\ Last.a1 \in SbcCodes) =>
        \E a \in {Last.pre.register_a}, m \in {OperandByte(Last)}, cin \in {CarryIn(Last)} :
            /\ ~Last.post.panicked
            /\ register_a = (a - m - (1 - cin) + 256) % 256
            /\ (Flag(status, 0) = 1) <=> (a >= m + (1 - cin))
            /\ \E d \in {add_to_register_a(Last.pre, \hFF - m)} :
                  /\ register_a = d.register_a
                  /\ ArithmeticFlags(status) = ArithmeticFlags(d.status)

\* SBC #0x80 on A = 0x00 with the carry clear: a borrow, A = 0x7F, V clear.
C13_Witness ==
    /\ Did("step") /\ Last.a1 = \hE9
    /\ Last.pre.register_a = \h00
    /\ OperandByte(Last) = \h80
    /\ CarryIn(Last) = 0
    /\ register_a = \h7F
    /\ ArithmeticFlags(status) = <<0, 0, 0, 0>>

\* The register the compare of step e reads: A for CMP, X for CPX, Y for CPY.
Compared(e) ==
    CASE e.a1 \in CmpCodes -> e.pre.register_a
      [] e.a1 \in CpxCodes -> e.pre.register_x
      [] e.a1 \in CpyCodes -> e.pre.register_y

\* C14: for every register value R and operand M, the compare sets C iff R >= M,
\* Z iff R = M, N to bit 7 of (R - M) mod 256, and leaves A, X, Y, SP, memory and
\* the V flag unchanged.
C14_Compare ==
    (Did("step") /\ Last.a1 \in CmpCodes \cup CpxCodes \cup CpyCodes) =>
        \E r \in {Compared(Last)}, m \in {OperandByte(Last)} :
            /\ ~Last.post.panicked
            /\ (Flag(status, 0) = 1) <=> (r >= m)
            /\ (Flag(status, 1) = 1) <=> (r = m)
            /\ Flag(status, 7) = ((r - m + 256) % 256) \div 128
            /\ register_a = Last.pre.register_a
            /\ register_x = Last.pre.register_x
            /\ register_y = Last.pre.register_y
            /\ stack_pointer = Last.pre.stack_pointer
            /\ memory = Last.pre.memory
            /\ Flag(status, 6) = Flag(Last.pre.status, 6)

\* CPX #0x80 with X = 0x7F: less as unsigned numbers (C clear) with a difference
\* of 0xFF (N set), the flags before all set but for B.
C14_Witness ==
    /\ Did("step") /\ Last.a1 = \hE0
    /\ Last.pre.register_x = \h7F
    /\ OperandByte(Last) = \h80
    /\ Last.pre.status = \hE7
    /\ status = \hE4
    /\ register_x = \h7F

\* The little-endian word whose two bytes are read at p and at (p + 1) mod 256.
ZeroPageWord(mem, p) == Peek(mem, p) + 256 * Peek(mem, (p + 1) % 256)

\* C15: the pointer of an indirect mode is read inside the zero page: IndirectX
\* with operand b resolves to the word at p = (b + X) mod 256 and (p + 1) mod 256,
\* IndirectY with operand p to (the word at p and (p + 1) mod 256) + Y mod 2^16;
\* with X = 1 and operand 0xFF the bytes come from 0x00 and 0x01.
C15_PointerStaysInZeroPage ==
    /\ (Did("get_operand_address") /\ Last.a1 = "IndirectX") =>
          \E b \in {Peek(Last.pre.memory, Last.pre.program_counter)} :
              /\ ~Last.post.panicked
              /\ Last.ret = ZeroPageWord(Last.pre.memory,
                                         (b + Last.pre.register_x) % 256)
              /\ (b = \hFF /\ Last.pre.register_x = \h01) =>
                    Last.ret = Peek(Last.pre.memory, \h0000)
                               + 256 * Peek(Last.pre.memory, \h0001)
    /\ (Did("get_operand_address") /\ Last.a1 = "IndirectY") =>
          \E p \in {Peek(Last.pre.memory, Last.pre.program_counter)} :
              /\ ~Last.post.panicked
              /\ Last.ret = (ZeroPageWord(Last.pre.memory, p)
                             + Last.pre.register_y) % 65536

\* IndirectX with operand 0xFF and X = 1, the cells 0x0000, 0x0001 and 0x0100,
\* 0x0101 all different: the address is made of the bytes at 0x0000 and 0x0001.
C15_Witness ==
    /\ Did("get_operand_address") /\ Last.a1 = "IndirectX"
    /\ Peek(memory, program_counter) = \hFF
    /\ register_x = \h01
    /\ Peek(memory, \h0000) = \h11 /\ Peek(memory, \h0001) = \h22
    /\ Peek(memory, \h0100) = \h88 /\ Peek(memory, \h0101) = \h99
    /\ Last.ret = \h2211

\* The pointer an indirect JMP reads: the word after the opcode.
JumpPointer(e) == Peek(e.pre.memory, e.a2) + 256 * Peek(e.pre.memory, e.a2 + 1)

\* C16: JMP indirect with pointer addr: when the low byte of addr is 0xFF the
\* target's low byte is read at addr and its high byte at addr & 0xFF00, for every
\* such addr from 0x00FF to 0xFFFF; for every other addr the target is the
\* little-endian word at addr and addr + 1.
C16_JumpIndirect ==
    (Did("step") /\ Last.a1 = \h6C) =>
        \E addr \in {JumpPointer(Last)} :
            /\ ~Last.post.panicked
            /\ program_counter =
                  IF addr % 256 = \hFF
                  THEN Peek(Last.pre.memory, addr)
                       + 256 * Peek(Last.pre.memory, addr - \hFF)
                  ELSE Peek(Last.pre.memory, addr)
                       + 256 * Peek(Last.pre.memory, addr + 1)

\* The word a return of step e pops: the two bytes above the stack pointer.
PoppedWord(e) ==
    Peek(e.pre.memory, \h0100 + ((e.pre.stack_pointer + 1) % 256))
    + 256 * Peek(e.pre.memory, \h0100 + ((e.pre.stack_pointer + 2) % 256))

\* The word a JSR of step e left on the stack.
PushedWord(e) ==
    Peek(e.post.memory, \h0100 + ((e.post.stack_pointer + 1) % 256))
    + 256 * Peek(e.post.memory, \h0100 + ((e.post.stack_pointer + 2) % 256))

\* C17: no addition that forms an address or a PC value aborts the step, each
\* wraps at its width: RTS ends with PC = (popped word + 1) mod 2^16 whatever the
\* word, and JSR (its operand inside the array) pushes the address of its last
\* byte and jumps.
C17_NoOverflowEscapes ==
    /\ (Did("step") /\ Last.a1 = \h60) =>
          /\ ~Last.post.panicked
          /\ program_counter = (PoppedWord(Last) + 1) % 65536
    /\ (Did("step") /\ Last.a1 = \h20 /\ Last.a2 < \hFFFD) =>
          /\ ~Last.post.panicked
          /\ PushedWord(Last) = Last.a2 + 1
          /\ program_counter = Peek(Last.pre.memory, Last.a2)
                               + 256 * Peek(Last.pre.memory, Last.a2 + 1)

\* C18: a byte fetched as an opcode that is not an official opcode aborts the run
\* at that step: the step changes PC only (it stands behind the byte), no other
\* register, no flag, no memory byte, and no callback follows it; an official
\* opcode reaches neither the fatal arm nor the resolver's NonAddressing arm.
C18_UnknownOpcodeIsFatal ==
    /\ (Did("step") /\ Last.a1 \notin OfficialCodes) =>
          /\ panicked
          /\ ~Last.ret
          /\ Last.post = [Last.pre EXCEPT !.program_counter = @ + 1,
                                          !.panicked = TRUE]
          /\ phase = "fetch"
          /\ called = 0
    /\ Did("callback") => (DidPair("step", "callback") /\ Before.a1 \in OfficialCodes)
    /\ (Did("step") /\ Last.a1 \in OfficialCodes) => ~panicked

\* The byte 0x02 was fetched with X = 0xFF and SP = 0x80: the run has aborted
\* with PC behind the byte and everything else as it was.
C18_Witness ==
    /\ Did("step") /\ Last.a1 = \h02
    /\ panicked
    /\ program_counter = \h0601
    /\ register_x = \hFF /\ stack_pointer = \h80 /\ status = \hE7
    /\ memory = Last.pre.memory

\* A status byte with B (bit 4) and U (bit 5) set, and with B clear and U set.
WithBreakBits(p) == p + (1 - Flag(p, 4)) * \h10 + (1 - Flag(p, 5)) * \h20
AsPulled(b) == b - Flag(b, 4) * \h10 + (1 - Flag(b, 5)) * \h20

\* C19: PHP writes P | B | U to the stack and leaves P as it was; PLP sets P to
\* the popped byte with B cleared and U set; so PHP followed by PLP leaves the
\* C, Z, I, D, V, N of P as they were, B clear, U set, and SP restored.
C19_PhpPlp ==
    /\ (Did("step") /\ Last.a1 = \h08) =>
          /\ ~Last.post.panicked
          /\ Peek(memory, \h0100 + Last.pre.stack_pointer)
                = WithBreakBits(Last.pre.status)
          /\ status = Last.pre.status
          /\ stack_pointer = (Last.pre.stack_pointer + 255) % 256
    /\ (Did("step") /\ Last.a1 = \h28) =>
          /\ ~Last.post.panicked
          /\ stack_pointer = (Last.pre.stack_pointer + 1) % 256
          /\ status = AsPulled(Peek(Last.pre.memory, \h0100 + stack_pointer))
    /\ (DidPair("step", "step") /\ Before.a1 = \h08 /\ Last.a1 = \h28) =>
          /\ \A i \in {0, 1, 2, 3, 6, 7} : Flag(status, i) = Flag(Before.pre.status, i)
          /\ Flag(status, 4) = 0
          /\ Flag(status, 5) = 1
          /\ stack_pointer = Before.pre.stack_pointer

\* PHP; PLP from P = 0xC3 (U clear) and SP = 0x00: the byte 0xF3 went to 0x0100,
\* SP wrapped to 0xFF and came back, and P is 0xE3.
C19_Witness ==
    /\ DidPair("step", "step") /\ Before.a1 = \h08 /\ Last.a1 = \h28
    /\ Before.pre.status = \hC3
    /\ Before.pre.stack_pointer = \h00
    /\ Before.post.stack_pointer = \hFF
    /\ Peek(memory, \h0100) = \hF3
    /\ status = \hE3
    /\ stack_pointer = \h00

\* The byte in the cell the instruction of step e addresses, before and after it.
CellBefore(e) == Peek(e.pre.memory, Target(e))
CellAfter(e) == Peek(e.post.memory, Target(e))

\* C20: INC, DEC, INX, DEX, INY, DEY add or subtract 1 with 8-bit wrap and without
\* error (0xFF + 1 = 0x00, 0x00 - 1 = 0xFF); so INX followed by DEX restores every
\* X, and LDA #0xFF; TAX; INX; INX leaves X = 0x01.
C20_IncDecWrap ==
    /\ (Did("step") /\ Last.a1 = \hE8) =>
          (~panicked /\ register_x = (Last.pre.register_x + 1) % 256)
    /\ (Did("step") /\ Last.a1 = \hCA) =>
          (~panicked /\ register_x = (Last.pre.register_x + 255) % 256)
    /\ (Did("step") /\ Last.a1 = \hC8) =>
          (~panicked /\ register_y = (Last.pre.register_y + 1) % 256)
    /\ (Did("step") /\ Last.a1 = \h88) =>
          (~panicked /\ register_y = (Last.pre.register_y + 255) % 256)
    /\ (Did("step") /\ Last.a1 \in {\hE6, \hF6, \hEE, \hFE}) =>
          (~panicked /\ CellAfter(Last) = (CellBefore(Last) + 1) % 256)
    /\ (Did("step") /\ Last.a1 \in {\hC6, \hD6, \hCE, \hDE}) =>
          (~panicked /\ CellAfter(Last) = (CellBefore(Last) + 255) % 256)
    /\ (DidPair("step", "step") /\ Before.a1 = \hE8 /\ Last.a1 = \hCA) =>
          register_x = Before.pre.register_x
    /\ (fetched = 4 /\ Peek(memory, \h0600) = \hA9) =>
          (~panicked /\ program_counter = \h0605 /\ register_x = \h01)

\* LDA #0xFF; TAX; INX; INX has run: the first INX took X from 0xFF to 0x00 and
\* set Z, the second left X = 0x01.
C20_Witness ==
    /\ fetched = 4
    /\ Peek(memory, \h0600) = \hA9 /\ Peek(memory, \h0601) = \hFF
    /\ DidPair("step", "step") /\ Before.a1 = \hE8 /\ Last.a1 = \hE8
    /\ Before.pre.register_x = \hFF
    /\ Before.post.register_x = \h00
    /\ Flag(Before.post.status, 1) = 1
    /\ register_x = \h01
    /\ register_a = \hFF

\* The word at addr and addr + 1 of a memory.
WordAt(mem, addr) == Peek(mem, addr) + 256 * Peek(mem, addr + 1)

\* The target the control-flow routine of step e computes: the operand word
\* (JMP absolute, JSR), the word the pointer leads to (JMP indirect, with the high
\* byte from the start of the page when the pointer ends a page), the popped word
\* + 1 (RTS), the word popped after the status byte (RTI).
FlowTarget(e) ==
    CASE e.a1 \in {\h4C, \h20} -> WordAt(e.pre.memory, e.a2)
      [] e.a1 = \h6C ->
            IF JumpPointer(e) % 256 = \hFF
            THEN Peek(e.pre.memory, JumpPointer(e))
                 + 256 * Peek(e.pre.memory, JumpPointer(e) - \hFF)
            ELSE WordAt(e.pre.memory, JumpPointer(e))
      [] e.a1 = \h60 -> (PoppedWord(e) + 1) % 65536
      [] e.a1 = \h40 ->
            Peek(e.pre.memory, \h0100 + ((e.pre.stack_pointer + 2) % 256))
            + 256 * Peek(e.pre.memory, \h0100 + ((e.pre.stack_pointer + 3) % 256))

\* C21: after JMP absolute, JMP indirect, JSR, RTS and RTI the PC at the end of
\* the step is exactly the target the routine computed, for every target, the
\* address right behind the opcode included.
C21_PcWritePreserved ==
    (Did("step") /\ Last.a1 \in FlowCodes /\ ~Last.post.panicked) =>
        program_counter = FlowTarget(Last)


\* C22: a JSR whose opcode is at address a pushes the word a + 2, high byte
\* first, and sets PC to its operand word; an RTS executed with the SP that JSR
\* left and the two stack bytes intact sets PC = a + 3 and restores the SP the
\* JSR found.
C22_JsrRtsPairing ==
    /\ (Did("step") /\ Last.a1 = \h20 /\ ~Last.post.panicked) =>
          \E a \in {Last.a2 - 1}, sp \in {Last.pre.stack_pointer} :
             /\ Peek(memory, \h0100 + sp) = ((a + 2) \div 256) % 256
             /\ Peek(memory, \h0100 + ((sp + 255) % 256)) = (a + 2) % 256
             /\ stack_pointer = (sp + 254) % 256
             /\ program_counter = WordAt(Last.pre.memory, Last.a2)
    /\ (DidPair("step", "step") /\ Before.a1 = \h20 /\ Last.a1 = \h60
        /\ ~Last.post.panicked) =>
          /\ Last.pre.stack_pointer = Before.post.stack_pointer
          /\ PoppedWord(Last) = PushedWord(Before)
          /\ program_counter = (Before.a2 - 1 + 3) % 65536
          /\ stack_pointer = Before.pre.stack_pointer


\* The instructions that write the PC themselves, and BRK.
WritesPC(e) ==
    \/ e.a1 \in JumpCodes \cup {\h60, \h40, \h00}
    \/ e.a1 \in RelativeCodes /\ Taken(e.a1, e.pre.status)

\* C23: for every executed instruction other than a taken branch, JMP, JSR, RTS,
\* RTI and BRK, the PC after the step is the opcode's address plus the encoded
\* length of the instruction (1 for implied and accumulator, 2 for immediate,
\* zero page, indexed indirect and relative, 3 for the absolute forms).
C23_PcAdvancesByLength ==
    (Did("step") /\ ~Last.post.panicked /\ ~WritesPC(Last)) =>
        \E a \in {Last.a2 - 1} :
           /\ Last.pre.program_counter = a
           /\ program_counter =
                 (a + (CASE Last.a1 \in ImpliedCodes -> 1
                         [] Last.a1 \in AbsoluteCodes \cup AbsoluteXCodes
                                        \cup AbsoluteYCodes -> 3
                         [] OTHER -> 2)) % 65536

\* STA absolute,X at 0x0600 ends at 0x0603, and so does a BNE at 0x0600 that is
\* not taken end at 0x0602.
C23_Witness ==
    /\ Did("step") /\ ~Last.post.panicked
    /\ \/ Last.a1 = \h9D /\ Last.a2 = \h0601 /\ program_counter = \h0603
       \/ Last.a1 = \hD0 /\ ~Taken(\hD0, Last.pre.status) /\ Last.a2 = \h0601
          /\ program_counter = \h0602


\* The byte that is k pops away on the stack of a CPU.
StackByte(c, k) == Peek(c.memory, \h0100 + ((c.stack_pointer + k) % 256))

\* C24: RTI pops one byte into P, B cleared and U set, then a word, low byte
\* first, and sets PC to exactly that word, no 1 added; SP rises by 3 modulo 256;
\* A, X, Y and memory are unchanged.
C24_ReturnFromInterrupt ==
    (Did("step") /\ Last.a1 = \h40) =>
        /\ ~panicked
        /\ status = AsPulled(StackByte(Last.pre, 1))
        /\ program_counter = StackByte(Last.pre, 2) + 256 * StackByte(Last.pre, 3)
        /\ stack_pointer = (Last.pre.stack_pointer + 3) % 256
        /\ register_a = Last.pre.register_a
        /\ register_x = Last.pre.register_x
        /\ register_y = Last.pre.register_y
        /\ memory = Last.pre.memory

\* SP = 0xFD, the bytes 0xFF, 0x34, 0x00 on the stack at 0x01FE, 0x01FF, 0x0100:
\* P = 0xEF, PC = 0x0034, SP = 0x00.
C24_Witness ==
    /\ Did("step") /\ Last.a1 = \h40
    /\ Last.pre.stack_pointer = \hFD
    /\ StackByte(Last.pre, 1) = \hFF
    /\ StackByte(Last.pre, 2) = \h34
    /\ StackByte(Last.pre, 3) = \h00
    /\ status = \hEF
    /\ program_counter = \h0034
    /\ stack_pointer = \h00


\* A status byte with bit i made b.
WithFlag(st, i, b) == st - Flag(st, i) * (2 ^ i) + b * (2 ^ i)

\* Step e left A, X, Y and SP as they were.
KeepsRegisters(e) ==
    /\ e.post.register_a = e.pre.register_a
    /\ e.post.register_x = e.pre.register_x
    /\ e.post.register_y = e.pre.register_y
    /\ e.post.stack_pointer = e.pre.stack_pointer

\* Step e left every memory byte as it was, but the one at addr, which is data.
WritesOnly(e, addr, data) ==
    \A k \in DOMAIN e.pre.memory \cup DOMAIN e.post.memory \cup {addr} :
        Peek(e.post.memory, k) = IF k = addr THEN data ELSE Peek(e.pre.memory, k)

\* The status bit of each flag instruction, and the value it gives it.
OwnFlag(code) ==
    CASE code = \h18 -> <<0, 0>>      \* CLC
      [] code = \h38 -> <<0, 1>>      \* SEC
      [] code = \hD8 -> <<3, 0>>      \* CLD
      [] code = \hF8 -> <<3, 1>>      \* SED
      [] code = \h58 -> <<2, 0>>      \* CLI
      [] code = \h78 -> <<2, 1>>      \* SEI
      [] code = \hB8 -> <<6, 0>>      \* CLV

\* The register each store writes to memory.
Stored(e) ==
    CASE e.a1 \in {\h86, \h96, \h8E} -> e.pre.register_x
      [] e.a1 \in {\h84, \h94, \h8C} -> e.pre.register_y
      [] OTHER -> e.pre.register_a

\* C25: TXS copies X into SP and changes no flag; STA, STX, STY change one memory
\* byte and no flag or register; PHA changes no flag; each of CLC, SEC, CLD, SED,
\* CLI, SEI, CLV changes its own status bit and nothing else besides PC; NOP
\* changes nothing besides PC.
C25_FlagFrames ==
    (Did("step") /\ ~Last.post.panicked) =>
        /\ Last.a1 = \h9A =>
              (stack_pointer = Last.pre.register_x /\ status = Last.pre.status)
        /\ Last.a1 \in {\h85, \h95, \h8D, \h9D, \h99, \h81, \h91,
                        \h86, \h96, \h8E, \h84, \h94, \h8C} =>
              /\ WritesOnly(Last, Target(Last), Stored(Last))
              /\ KeepsRegisters(Last)
              /\ status = Last.pre.status
        /\ Last.a1 = \h48 => status = Last.pre.status
        /\ Last.a1 \in {\h18, \h38, \hD8, \hF8, \h58, \h78, \hB8} =>
              /\ status = WithFlag(Last.pre.status, OwnFlag(Last.a1)[1],
                                   OwnFlag(Last.a1)[2])
              /\ KeepsRegisters(Last)
              /\ memory = Last.pre.memory
        /\ Last.a1 = \hEA =>
              /\ status = Last.pre.status
              /\ KeepsRegisters(Last)
              /\ memory = Last.pre.memory

\* TXS with X = 0x00 and Z clear: SP = 0x00 and Z still clear.
C25_Witness ==
    /\ Did("step") /\ ~Last.post.panicked
    /\ Last.a1 = \h9A
    /\ Last.pre.register_x = \h00
    /\ Last.pre.stack_pointer = \hFF
    /\ Last.pre.status = \hA5
    /\ stack_pointer = \h00
    /\ status = \hA5


\* C26: in every state reached by executing instructions, the callback leaving
\* the status alone, P has bit 5 (U) set and bit 4 (B) clear; no instruction
\* breaks this, PLP and RTI popping an arbitrary byte included.
C26_UnusedSetBreakClear ==
    Flag(status, 5) = 1 /\ Flag(status, 4) = 0

\* A PLP or an RTI that popped 0xDF, a byte with B set and U clear.
C26_Witness ==
    /\ Did("step") /\ Last.a1 \in {\h28, \h40}
    /\ StackByte(Last.pre, 1) = \hDF
    /\ Last.pre.status = \h24
    /\ status = \hEF


RolCodes == {\h2A, \h26, \h36, \h2E, \h3E}
RorCodes == {\h6A, \h66, \h76, \h6E, \h7E}

\* The operand of the rotate of step e, in A or in a memory cell, before and
\* after the step.
RotateOperand(e) == IF e.a1 \in {\h2A, \h6A} THEN e.pre.register_a ELSE CellBefore(e)
RotateResult(e) == IF e.a1 \in {\h2A, \h6A} THEN e.post.register_a ELSE CellAfter(e)

\* Two consecutive rotates work on the same operand.
SameOperand(e1, e2) ==
    \/ e1.a1 \in {\h2A, \h6A} /\ e2.a1 \in {\h2A, \h6A}
    \/ /\ e1.a1 \notin {\h2A, \h6A} /\ e2.a1 \notin {\h2A, \h6A}
       /\ Target(e1) = Target(e2)

\* C27: ROL and ROR rotate the nine bits of the operand and the carry: ROL puts
\* old bit 7 in C and old C in bit 0, ROR puts old bit 0 in C and old C in bit 7;
\* so ROL followed by ROR on the same operand, and ROR followed by ROL, restore
\* the value and the carry, for every value and either carry.
C27_RotatesAreInverse ==
    /\ (Did("step") /\ Last.a1 \in RolCodes /\ ~Last.post.panicked) =>
          \E v \in {RotateOperand(Last)}, cin \in {CarryIn(Last)} :
             /\ RotateResult(Last) = (2 * v + cin) % 256
             /\ Flag(status, 0) = v \div 128
    /\ (Did("step") /\ Last.a1 \in RorCodes /\ ~Last.post.panicked) =>
          \E v \in {RotateOperand(Last)}, cin \in {CarryIn(Last)} :
             /\ RotateResult(Last) = (v \div 2) + 128 * cin
             /\ Flag(status, 0) = v % 2
    /\ (/\ DidPair("step", "step") /\ ~Last.post.panicked
        /\ \/ Before.a1 \in RolCodes /\ Last.a1 \in RorCodes
           \/ Before.a1 \in RorCodes /\ Last.a1 \in RolCodes
        /\ SameOperand(Before, Last)) =>
          /\ RotateResult(Last) = RotateOperand(Before)
          /\ Flag(status, 0) = CarryIn(Before)

\* ROL $20 then ROR $20 on 0x80 with the carry clear: 0x00 with the carry set in
\* between, 0x80 with the carry clear at the end.
C27_Witness ==
    /\ DidPair("step", "step") /\ Before.a1 = \h26 /\ Last.a1 = \h66
    /\ ~Last.post.panicked
    /\ SameOperand(Before, Last)
    /\ RotateOperand(Before) = \h80 /\ CarryIn(Before) = 0
    /\ RotateResult(Before) = \h00 /\ CarryIn(Last) = 1
    /\ Peek(memory, \h20) = \h80
    /\ Flag(status, 0) = 0

=============================================================================
